---- MODULE Spec2Model ----
(***************************************************************************)
(* Hapto: the timeline interaction state machine (timeline.tsx), the       *)
(* editor session that owns cues and selection (hapto-editor.tsx).         *)
(*                                                                         *)
(* Units.  Times are integers counted in ticks of 1/160 s, so that the     *)
(* 0.1 s threshold of the resize handlers is Tenth = 16 ticks.  Pixels are *)
(* integers.  The video of the sessions lasts 16 * TrackWidth ticks,      *)
(* which makes one pixel worth a whole number of ticks at every zoom       *)
(* level, so that pixelToTime is computed exactly; the 60 s scenario       *)
(* (SpecSixty) has whole ticks per pixel up to 4x and is used for the      *)
(* zoom arithmetic only.  zoomLevel is stored in quarters                  *)
(* (zoomQ = 4 * zoomLevel), so 0.25x is 1 and 16x is 64.                   *)
(***************************************************************************)
EXTENDS Integers, Sequences, FiniteSets, TLC

\* ------------------------------------------------------------ bounds
MaxCues   == 2      \* cues the collection may hold
MaxClock  == 2      \* readings of the wall clock (Date.now())
MaxEvents == 3      \* events handled after the initial snapshot
MaxOps    == 1      \* direct calls of an editor operation (SpecOps)
Precision == 10     \* bits of a number's significand (53 in the source)

\* ------------------------------------------------- program constants
TrackWidth    == 800   \* timelineRef.current.offsetWidth, in px
Tenth         == 16    \* 0.1 s, in ticks
TrackHeight   == 36    \* px per track
HeaderOffset  == 40    \* px subtracted before the track division
CueHeight     == 32    \* px
MinCueWidth   == 4     \* px
MarqueeNoise  == 5     \* px
NumTracks     == 8
MaxZoom       == 16
StaticSeconds == 5     \* 0.5 s, in tenths
RampSeconds   == 20    \* 2.0 s, in tenths

Duration       == 16 * TrackWidth          \* the video of the sessions: 80 s
MinZoomQ       == 4 \div 4                 \* 0.25x, in quarters
MaxZoomQ       == 4 * MaxZoom              \* 16x, in quarters
OneSecond      == 10 * Tenth
StaticDuration == StaticSeconds * Tenth
RampDuration   == RampSeconds * Tenth

\* null: a record no cue, drag state or marquee state equals
None == [null |-> TRUE]
NoTrack == 0 - 1     \* dragOverTrack = null

Min(a, b) == IF a <= b THEN a ELSE b
Max(a, b) == IF a >= b THEN a ELSE b
Abs(a)    == IF a >= 0 THEN a ELSE 0 - a

\* ------------------------------------------------- sampled inputs
\* pointer positions <<x, y>>, relative to the top left corner of the track
\* area: x = clientX - rect.left, y = clientY - rect.top
Points     == {<<0 - 200, 0>>, <<0, 0>>, <<4, 34>>, <<400, 34>>, <<400, 76>>}
AreaPoints == {p \in Points : 0 <= p[1] /\ p[1] <= TrackWidth}
BarXs      == {p[1] : p \in AreaPoints}      \* x inside the ruler
RampKinds == {"ramp_up", "ramp_down"}
CueKinds  == {"rumble_low", "rumble_high", "kick_soft", "kick_hard",
              "heartbeat_slow", "heartbeat_fast", "pulse", "explosion",
              "ramp_up", "ramp_down"}
\* drag payloads: a parsed object, or [type |-> "unparseable"] for text
\* that JSON.parse rejects
Payloads  == {[type |-> "cue-from-library", cueType |-> "kick_hard"],
              [type |-> "cue-from-library", cueType |-> "ramp_up"],
              [type |-> "file", cueType |-> "kick_hard"],
              [type |-> "unparseable"]}

VARIABLES
    \* Timeline component state
    zoomQ, viewStartTime, isDraggingScrubber, dragState, marqueeState,
    isDragOver, dragOverTrack,
    \* HaptoEditor state
    cues, selectedCue, selectedCueIds, currentTime, duration,
    \* environment
    now,
    \* bookkeeping: the last event handled, the selection before it, the
    \* number of events handled
    ev, selBefore, nEvents

timelineVars == <<zoomQ, viewStartTime, isDraggingScrubber, dragState,
                  marqueeState, isDragOver, dragOverTrack>>
editorVars   == <<cues, selectedCue, selectedCueIds, currentTime>>
\* duration is set by handleVideoLoad and constant while a video is loaded
vars == <<timelineVars, editorVars, duration, now, ev, selBefore, nEvents>>

\* ------------------------------------------------- view / coordinates
VisibleDurationAt(zq) == (4 * duration) \div zq
visibleDuration == VisibleDurationAt(zoomQ)

\* pixelToTime, with the view given explicitly
PixelToTimeAt(pixel, vst, zq) ==
    IF VisibleDurationAt(zq) = 0 THEN 0
    ELSE vst + (pixel * VisibleDurationAt(zq)) \div TrackWidth
pixelToTime(pixel) == PixelToTimeAt(pixel, viewStartTime, zoomQ)

\* timeToPixel(t) is the rational TimeToPixelNum(t) / visibleDuration;
\* a pixel value p is compared with it through ScaledPx(p).
TimeToPixelNum(time) == (time - viewStartTime) * TrackWidth
ScaledPx(p) == p * visibleDuration

\* ---- numbers of the conversions, rounded as the language rounds them
\* A number is <<m, e>>, standing for m * 2^e, with m = 0 or
\* 2^(Precision-1) <= m < 2^Precision: binary floating point, every
\* operation rounded to nearest, ties to even. The source's numbers carry
\* 53 bits; the model carries Precision bits. Only numbers >= 0 occur.
RECURSIVE Pow2(_)
Pow2(k) == IF k = 0 THEN 1 ELSE 2 * Pow2(k - 1)

Radix     == Pow2(Precision)
HalfRadix == Pow2(Precision - 1)

\* the number nearest to (n / d) * 2^e
RECURSIVE RoundTo(_, _, _)
RoundTo(n, d, e) ==
    IF n = 0 THEN <<0, 0>>
    ELSE IF n >= d * Radix THEN RoundTo(n, 2 * d, e + 1)
    ELSE IF n < d * HalfRadix THEN RoundTo(2 * n, d, e - 1)
    ELSE LET q == n \div d
             r == n % d
             m == IF 2 * r > d \/ (2 * r = d /\ q % 2 = 1) THEN q + 1 ELSE q
         IN  IF m = Radix THEN <<HalfRadix, e + 1>>
             ELSE <<m, e>>

Num(n, d)    == RoundTo(n, d, 0)
NumMul(a, b) == RoundTo(a[1] * b[1], 1, a[2] + b[2])
NumDiv(a, b) == RoundTo(a[1], b[1], a[2] - b[2])
NumAdd(a, b) ==
    IF a[1] = 0 THEN b
    ELSE IF b[1] = 0 THEN a
    ELSE LET hi == IF a[2] >= b[2] THEN a ELSE b
             lo == IF a[2] >= b[2] THEN b ELSE a
             shift == hi[2] - lo[2]
         IN  IF shift > Precision + 1 THEN hi
             ELSE RoundTo(hi[1] * Pow2(shift) + lo[1], 1, lo[2])
\* a - b, for a >= b
NumSub(a, b) ==
    IF b[1] = 0 THEN a
    ELSE IF a[2] - b[2] > Precision + 1 THEN a
    ELSE RoundTo(a[1] * Pow2(a[2] - b[2]) - b[1], 1, b[2])
NumLeq(a, b) ==
    \/ a[1] = 0
    \/ b[1] # 0 /\ (a[2] < b[2] \/ (a[2] = b[2] /\ a[1] <= b[1]))

\* a time in ticks as a number of seconds
Seconds(ticks) == Num(ticks, OneSecond)

\* visibleDuration = duration / zoomLevel
visibleDurationF == NumDiv(Seconds(duration), Num(zoomQ, 4))

\* timeToPixel: (relativeTime / visibleDuration) * offsetWidth
timeToPixelF(time) ==
    IF visibleDurationF[1] = 0 THEN <<0, 0>>
    ELSE LET relativeTime == NumSub(time, Seconds(viewStartTime))
         IN  NumMul(NumDiv(relativeTime, visibleDurationF), Num(TrackWidth, 1))

\* mutant of pixelToTimeF: the view's start time is left out
pixelToTimeF_NoOffset(pixel) ==
    IF visibleDurationF[1] = 0 THEN <<0, 0>>
    ELSE NumMul(NumDiv(pixel, Num(TrackWidth, 1)), visibleDurationF)

\* pixelToTime: viewStartTime + (pixel / offsetWidth) * visibleDuration
pixelToTimeF(pixel) ==
    IF visibleDurationF[1] = 0 THEN <<0, 0>>
    ELSE LET relativeTime ==
                 NumMul(NumDiv(pixel, Num(TrackWidth, 1)), visibleDurationF)
         IN  NumAdd(Seconds(viewStartTime), relativeTime)

\* a number with its sign: mag is a number >= 0
Signed(neg, mag) == [neg |-> neg /\ mag[1] # 0, mag |-> mag]

\* the drag effect's deltaTime = pixelToTime(deltaX), deltaX of either sign
deltaTimeF(deltaX) ==
    IF deltaX >= 0 THEN Signed(FALSE, pixelToTimeF(Num(deltaX, 1)))
    ELSE IF visibleDurationF[1] = 0 THEN Signed(FALSE, <<0, 0>>)
    ELSE LET back == NumMul(NumDiv(Num(0 - deltaX, 1), Num(TrackWidth, 1)),
                            visibleDurationF)
             vst  == Seconds(viewStartTime)
         IN  IF NumLeq(back, vst) THEN Signed(FALSE, NumSub(vst, back))
             ELSE Signed(TRUE, NumSub(back, vst))

\* mutant of resizeLeftF: the new duration is startDuration - deltaTime
resizeLeftF_FromDelta(ds, delta) ==
    LET start == Seconds(ds.startTime)
        dur   == Seconds(ds.startDuration)
        newStartTime ==
            IF ~delta.neg THEN NumAdd(start, delta.mag)
            ELSE IF NumLeq(start, delta.mag) THEN <<0, 0>>
            ELSE NumSub(start, delta.mag)
        positive == delta.neg \/ ~NumLeq(dur, delta.mag)
        newDuration ==
            IF delta.neg THEN NumAdd(dur, delta.mag)
            ELSE IF positive THEN NumSub(dur, delta.mag)
            ELSE <<0, 0>>
    IN  [applied   |-> positive /\ ~NumLeq(newDuration, Num(1, 10)),
         startTime |-> newStartTime,
         duration  |-> newDuration]

\* drag effect, resize-left: newStartTime = max(0, startTime + deltaTime),
\* newDuration = startDuration - (newStartTime - startTime), applied when
\* newDuration > 0.1
resizeLeftF(ds, delta) ==
    LET start == Seconds(ds.startTime)
        dur   == Seconds(ds.startDuration)
        newStartTime ==
            IF ~delta.neg THEN NumAdd(start, delta.mag)
            ELSE IF NumLeq(start, delta.mag) THEN <<0, 0>>
            ELSE NumSub(start, delta.mag)
        \* newStartTime - startTime, as sign and magnitude
        moved ==
            IF ~delta.neg THEN Signed(FALSE, NumSub(newStartTime, start))
            ELSE Signed(TRUE, NumSub(start, newStartTime))
        positive == moved.neg \/ ~NumLeq(dur, moved.mag)
        newDuration ==
            IF moved.neg THEN NumAdd(dur, moved.mag)
            ELSE IF positive THEN NumSub(dur, moved.mag)
            ELSE <<0, 0>>
    IN  [applied   |-> positive /\ ~NumLeq(newDuration, Num(1, 10)),
         startTime |-> newStartTime,
         duration  |-> newDuration]

\* mutant of AutoAdjust: the effect never moves the view
AutoAdjust_Never(ct, vst, zq) == vst

\* mutant of AutoAdjust: recentres without clamping
AutoAdjust_NoClamp(ct, vst, zq) ==
    IF ct < vst \/ ct > vst + VisibleDurationAt(zq)
    THEN ct - VisibleDurationAt(zq) \div 2
    ELSE vst

\* mutant of AutoAdjust: puts the playhead on the left edge
AutoAdjust_LeftEdge(ct, vst, zq) ==
    IF ct < vst \/ ct > vst + VisibleDurationAt(zq)
    THEN IF duration - VisibleDurationAt(zq) < ct
         THEN (IF duration - VisibleDurationAt(zq) < 0 THEN 0
               ELSE duration - VisibleDurationAt(zq))
         ELSE ct
    ELSE vst

\* the playhead-follow effect: the viewStartTime it leaves behind
AutoAdjust(ct, vst, zq) ==
    IF ct < vst \/ ct > vst + VisibleDurationAt(zq)
    THEN Max(0, Min(duration - VisibleDurationAt(zq),
                    ct - VisibleDurationAt(zq) \div 2))
    ELSE vst

\* ------------------------------------------------- cue model (editor)
IsRampKind(type) == type \in RampKinds

\* mutant of NewCue: ramp_down gets the defaults of ramp_up
NewCue_RampDownAsUp(id, type, startTime, track) ==
    IF type \in RampKinds
    THEN [id |-> id, type |-> type, startTime |-> startTime,
          duration |-> RampDuration, track |-> track,
          intensity_start |-> 10, intensity_end |-> 100,
          sharpness_start |-> 10, sharpness_end |-> 70]
    ELSE [id |-> id, type |-> type, startTime |-> startTime,
          duration |-> StaticDuration, intensity |-> 80,
          sharpness |-> 50, track |-> track]

\* the cue handleAddCue builds (parameters in hundredths)
NewCue(id, type, startTime, track) ==
    IF type = "ramp_up"
    THEN [id |-> id, type |-> type, startTime |-> startTime,
          duration |-> RampDuration, track |-> track,
          intensity_start |-> 10, intensity_end |-> 100,
          sharpness_start |-> 10, sharpness_end |-> 70]
    ELSE IF type = "ramp_down"
    THEN [id |-> id, type |-> type, startTime |-> startTime,
          duration |-> RampDuration, track |-> track,
          intensity_start |-> 100, intensity_end |-> 10,
          sharpness_start |-> 70, sharpness_end |-> 10]
    ELSE [id |-> id, type |-> type, startTime |-> startTime,
          duration |-> StaticDuration, intensity |-> 80,
          sharpness |-> 50, track |-> track]

\* targetTrack === undefined
NoTarget == 0 - 1

\* mutant of findAvailableTrack: the preferred track, occupied or not
findAvailableTrack_Preferred(cs, time, preferredTrack) == preferredTrack

\* handleAddCue, findAvailableTrack(time, preferredTrack)
HasConflict(cs, time, track) ==
    \E i \in DOMAIN cs : /\ cs[i].track = track
                         /\ time >= cs[i].startTime
                         /\ time <= cs[i].startTime + cs[i].duration
findAvailableTrack(cs, time, preferredTrack) ==
    LET free == {k \in preferredTrack..(NumTracks - 1) :
                    ~HasConflict(cs, time, k)}
    IN  IF free # {}
        THEN CHOOSE k \in free : \A j \in free : k <= j
        ELSE preferredTrack

\* handleAddCue(type, startTime, targetTrack): the collection it leaves;
\* id is the reading of Date.now()
AddCueTrack(cs, startTime, targetTrack) ==
    IF targetTrack # NoTarget THEN targetTrack
    ELSE findAvailableTrack(cs, startTime, 0)
handleAddCue(cs, id, type, startTime, targetTrack) ==
    Append(cs, NewCue(id, type, startTime,
                      AddCueTrack(cs, startTime, targetTrack)))

\* { ...cue, ...updates }
Merge(cue, updates) ==
    [f \in DOMAIN cue \cup DOMAIN updates |->
        IF f \in DOMAIN updates THEN updates[f] ELSE cue[f]]

\* handleUpdateCue: the new collection and the new primary copy
UpdateCues(cs, cueId, updates) ==
    [i \in DOMAIN cs |->
        IF cs[i].id = cueId THEN Merge(cs[i], updates) ELSE cs[i]]
\* mutant of UpdateSelected: the primary copy is not refreshed
UpdateSelected_Stale(sel, cueId, updates) == sel

UpdateSelected(sel, cueId, updates) ==
    IF sel # None /\ sel.id = cueId THEN Merge(sel, updates) ELSE sel

\* cues.find(c => ids.has(c.id)) || null
FindSelected(cs, ids) ==
    IF \E i \in DOMAIN cs : cs[i].id \in ids
    THEN cs[CHOOSE i \in DOMAIN cs :
                /\ cs[i].id \in ids
                /\ \A j \in DOMAIN cs : cs[j].id \in ids => i <= j]
    ELSE None

\* cues.find(c => c.id === id) exists
HasCue(cs, id) == \E i \in DOMAIN cs : cs[i].id = id

\* prev.filter(cue => !ids.has(cue.id))
FilterOut(cs, ids) == SelectSeq(cs, LAMBDA c : c.id \notin ids)

\* ------------------------------------------------- selection (editor)
\* mutant of ToggleIds: a modifier click that only ever adds
ToggleIds_AddOnly(ids, id) == ids \cup {id}

\* handleCueSelect, ctrlKey branch: the toggled id set
ToggleIds(ids, id) == IF id \in ids THEN ids \ {id} ELSE ids \cup {id}

\* mutant of SelectIds: a plain click that extends the selection
SelectIds_PlainExtends(cue, ctrlKey, ids) ==
    IF cue = None THEN {}
    ELSE IF ctrlKey THEN (IF cue.id \in ids THEN ids \ {cue.id}
                          ELSE ids \cup {cue.id})
    ELSE ids \cup {cue.id}

\* mutant of SelectIds: selecting null keeps the selection set
SelectIds_NullKeeps(cue, ctrlKey, ids) ==
    IF cue = None THEN ids
    ELSE IF ctrlKey THEN ToggleIds(ids, cue.id)
    ELSE {cue.id}

\* handleCueSelect: the selection set it leaves
SelectIds(cue, ctrlKey, ids) ==
    IF cue = None THEN {}
    ELSE IF ctrlKey THEN ToggleIds(ids, cue.id)
    ELSE {cue.id}

\* mutant of SelectPrimary: a modifier click always makes its cue primary
SelectPrimary_AlwaysClicked(cue, ctrlKey, ids, cs) == cue

\* handleCueSelect: the primary it leaves
SelectPrimary(cue, ctrlKey, ids, cs) ==
    IF cue = None THEN None
    ELSE IF ctrlKey
    THEN IF cue.id \in ids
         THEN IF ToggleIds(ids, cue.id) # {}
              THEN FindSelected(cs, ToggleIds(ids, cue.id))
              ELSE None
         ELSE cue
    ELSE cue

\* handleDeleteCue(cueId)
DeleteCueById(cs, cueId) == SelectSeq(cs, LAMBDA c : c.id # cueId)
DeleteCuePrimary(sel, cueId) ==
    IF sel # None /\ sel.id = cueId THEN None ELSE sel

\* mutant of DeleteCues: only the first selected cue is removed
DeleteCues_FirstOnly(cs, ids) ==
    IF FindSelected(cs, ids) = None THEN cs
    ELSE LET first == CHOOSE i \in DOMAIN cs :
                         /\ cs[i].id \in ids
                         /\ \A j \in DOMAIN cs : cs[j].id \in ids => i <= j
         IN  SubSeq(cs, 1, first - 1) \o SubSeq(cs, first + 1, Len(cs))

\* handleDeleteSelectedCues
DeleteCues(cs, ids) == IF ids = {} THEN cs ELSE FilterOut(cs, ids)
DeletePrimary(sel, ids) == IF ids = {} THEN sel ELSE None
DeleteIds(ids) == {}

\* handleMarqueeSelection: does the box computed for the cue meet the
\* rectangle (left, top, width, height)?  cueLeft = startTime / duration *
\* timelineRect.width is compared after multiplying through by Duration.
MarqueeIntersects(cue, left, top, width, height) ==
    LET cueLeftNum  == cue.startTime * TrackWidth
        cueRightNum == (cue.startTime + cue.duration) * TrackWidth
        cueTop      == cue.track * TrackHeight + HeaderOffset
        cueBottom   == cueTop + CueHeight
    IN  ~ \/ (left + width) * duration < cueLeftNum
          \/ left * duration > cueRightNum
          \/ top + height < cueTop
          \/ top > cueBottom

MarqueeIds(cs, left, top, width, height) ==
    {cs[i].id : i \in {j \in DOMAIN cs :
                        MarqueeIntersects(cs[j], left, top, width, height)}}

MarqueePrimary(cs, ids) == IF ids # {} THEN FindSelected(cs, ids) ELSE None


\* ------------------------------------------------- timeline handlers
\* renderCue: is the cue drawn, and does its box cover pixel x (and y)?
IsVisible(cue) ==
    /\ cue.startTime < viewStartTime + visibleDuration
    /\ cue.startTime + cue.duration > viewStartTime
    /\ TimeToPixelNum(cue.startTime) > ScaledPx(0 - 200)
    /\ TimeToPixelNum(cue.startTime) < ScaledPx(TrackWidth + 200)

\* left and left + actualWidth of the drawn box, times visibleDuration
BoxLeftNum(cue)  == TimeToPixelNum(cue.startTime)
BoxRightNum(cue) == BoxLeftNum(cue)
                    + Max(TimeToPixelNum(cue.duration), ScaledPx(MinCueWidth))
BoxTop(cue)      == cue.track * TrackHeight
BoxBottom(cue)   == BoxTop(cue) + CueHeight

CoversX(cue, x) ==
    /\ IsVisible(cue)
    /\ BoxLeftNum(cue) <= ScaledPx(x)
    /\ ScaledPx(x) <= BoxRightNum(cue)

Covers(cue, x, y) ==
    /\ CoversX(cue, x)
    /\ BoxTop(cue) <= y
    /\ y <= BoxBottom(cue)

\* mutant of TrackAt: the track index is not clamped
TrackAt_Unclamped(y) == (y - HeaderOffset) \div TrackHeight

\* mutant of TrackAt: the header height is not subtracted
TrackAt_NoHeader(y) == Max(0, Min(NumTracks - 1, y \div TrackHeight))

\* handleDragOver / handleDrop: the track under the pointer
TrackAt(y) ==
    Max(0, Min(NumTracks - 1, (y - HeaderOffset) \div TrackHeight))

\* mutant of DragUpdates: move forgets the lower clamp
DragUpdates_NoLowerClamp(ds, deltaTime) ==
    IF ds.type = "move"
    THEN "startTime" :> Min(duration - ds.startDuration,
                            ds.startTime + deltaTime)
    ELSE <<>>

\* mutant of DragUpdates: move forgets the upper clamp
DragUpdates_NoUpperClamp(ds, deltaTime) ==
    IF ds.type = "move"
    THEN "startTime" :> Max(0, ds.startTime + deltaTime)
    ELSE <<>>

\* mutant of DragUpdates: resize-left accepts a duration of exactly 0.1 s
DragUpdates_LaxMinimum(ds, deltaTime) ==
    IF ds.type = "resize-left"
    THEN LET newStartTime == Max(0, ds.startTime + deltaTime)
             newDuration  == ds.startDuration - (newStartTime - ds.startTime)
         IN  IF newDuration >= Tenth
             THEN ("startTime" :> newStartTime) @@ ("duration" :> newDuration)
             ELSE <<>>
    ELSE <<>>

\* drag effect, handleMouseMove: the updates object it builds
DragUpdates(ds, deltaTime) ==
    IF ds.type = "move"
    THEN "startTime" :> Max(0, Min(duration - ds.startDuration,
                                   ds.startTime + deltaTime))
    ELSE IF ds.type = "resize-left"
    THEN LET newStartTime == Max(0, ds.startTime + deltaTime)
             newDuration  == ds.startDuration - (newStartTime - ds.startTime)
         IN  IF newDuration > Tenth
             THEN ("startTime" :> newStartTime) @@ ("duration" :> newDuration)
             ELSE <<>>
    ELSE LET newDurationRight == Max(Tenth, ds.startDuration + deltaTime)
         IN  IF ds.startTime + newDurationRight <= duration
             THEN "duration" :> newDurationRight
             ELSE <<>>

\* drag effect, handleMouseMove: the updates that reach onCueUpdate
DragMoveUpdates(ds, cs, x) ==
    IF ds = None \/ ~HasCue(cs, ds.cueId) THEN <<>>
    ELSE DragUpdates(ds, pixelToTime(x - ds.startX))

\* handleTimelineBarMouseDown: the time it seeks
ScrubDownTime(x) == pixelToTime(x)

\* scrub effect, handleMouseMove: the time it seeks
ScrubMoveTime(x) == Max(0, Min(duration, pixelToTime(x)))

\* mutant of ZoomInLevel: doubling without the cap
ZoomInLevel_NoCap(zq) == zq * 2

\* mutant of ZoomInStart: the view start is kept, not recentred
ZoomInStart_KeepsStart(zq, vst) == vst

\* handleZoomIn / handleZoomOut
ZoomInLevel(zq)  == Min(zq * 2, MaxZoomQ)
ZoomOutLevel(zq) == Max(zq \div 2, MinZoomQ)
ZoomInStart(zq, vst) ==
    LET centerTime         == vst + VisibleDurationAt(zq) \div 2
        newVisibleDuration == VisibleDurationAt(ZoomInLevel(zq))
    IN  Max(0, Min(duration - newVisibleDuration,
                   centerTime - newVisibleDuration \div 2))
ZoomOutStart(zq, ct) ==
    LET newVisibleDuration == VisibleDurationAt(ZoomOutLevel(zq))
    IN  IF newVisibleDuration >= duration THEN 0
        ELSE Max(0, Min(duration - newVisibleDuration,
                        ct - newVisibleDuration \div 2))

\* the marquee rectangle built at release
MarqueeLeft(m)   == Min(m.startX, m.currentX)
MarqueeTop(m)    == Min(m.startY, m.currentY)
MarqueeWidth(m)  == Abs(m.currentX - m.startX)
MarqueeHeight(m) == Abs(m.currentY - m.startY)
\* mutant of MarqueeIsMeaningful: one large side is enough
MarqueeIsMeaningful_EitherSide(m) ==
    MarqueeWidth(m) > MarqueeNoise \/ MarqueeHeight(m) > MarqueeNoise

MarqueeIsMeaningful(m) ==
    MarqueeWidth(m) > MarqueeNoise /\ MarqueeHeight(m) > MarqueeNoise


\* ------------------------------------------------- initial snapshots
\* A behaviour starts from the editor as constructed (video loaded, no cue,
\* 1x zoom) or from a later snapshot of it with no gesture in progress:
\*   cues  - none; or a kick_hard dropped at <<0, 0>> at 1x followed by a
\*           ramp_up dropped at <<400, 76>> at 1x, one clock reading later
\*           or within the same clock reading
\*   view  - 1x; 0.25x (two zoom-outs); 2x panned to the second half (ruler
\*           pressed at x = 800 at 1x, released, zoom-in)
CueSeeds ==
    {<<>>,
     <<NewCue(1, "kick_hard", 0, 0),
       NewCue(2, "ramp_up", Duration \div 2, 1)>>,
     <<NewCue(1, "kick_hard", 0, 0),
       NewCue(1, "ramp_up", Duration \div 2, 1)>>}
ViewSeeds ==
    {[zq |-> 4, vst |-> 0, ct |-> 0],
     [zq |-> MinZoomQ, vst |-> 0, ct |-> 0],
     [zq |-> 8, vst |-> Duration \div 2, ct |-> Duration]}

Init ==
    /\ duration = Duration
    /\ \E v \in ViewSeeds : /\ zoomQ = v.zq
                            /\ viewStartTime = v.vst
                            /\ currentTime = v.ct
    /\ isDraggingScrubber = FALSE
    /\ dragState = None
    /\ marqueeState = None
    /\ isDragOver = FALSE
    /\ dragOverTrack = NoTrack
    /\ cues \in CueSeeds
    /\ selectedCue = None
    /\ selectedCueIds = {}
    /\ now = IF cues = <<>> THEN 1 ELSE cues[Len(cues)].id
    /\ ev = [name |-> "init"]
    /\ selBefore = {}
    /\ nEvents = 0

\* ------------------------------------------------- actions
\* every action is one event handled: it records the event and counts it
Handled(e) ==
    /\ nEvents < MaxEvents
    /\ nEvents' = nEvents + 1
    /\ ev' = e
    /\ selBefore' = selectedCueIds
    /\ duration' = duration

\* is this pointer-down on a cue the same as the event handled just before?
Repeated(id, ctrlKey) ==
    ev.name = "cueDown" /\ ev.cue = id /\ ev.ctrlKey = ctrlKey

\* handleCueMouseDown(e, cue, type), with cue = cues[i] under the pointer
CueMouseDown(i, type, x, ctrlKey) ==
    /\ i \in DOMAIN cues
    /\ CoversX(cues[i], x)
    /\ Handled([name |-> "cueDown", cue |-> cues[i].id, ctrlKey |-> ctrlKey,
                repeated |-> Repeated(cues[i].id, ctrlKey)])
    /\ selectedCueIds' = SelectIds(cues[i], ctrlKey, selectedCueIds)
    /\ selectedCue' = SelectPrimary(cues[i], ctrlKey, selectedCueIds, cues)
    /\ dragState' = [type |-> type, cueId |-> cues[i].id, startX |-> x,
                     startTime |-> cues[i].startTime,
                     startDuration |-> cues[i].duration]
    /\ UNCHANGED <<zoomQ, viewStartTime, isDraggingScrubber, marqueeState,
                   isDragOver, dragOverTrack, cues, currentTime, now>>

\* handleTimelineBarMouseDown, pointer inside the ruler
TimelineBarMouseDown(x) ==
    /\ dragState = None
    /\ Handled([name |-> "barDown", x |-> x])
    /\ isDraggingScrubber' = TRUE
    /\ currentTime' = ScrubDownTime(x)
    /\ viewStartTime' = AutoAdjust(currentTime', viewStartTime, zoomQ)
    /\ UNCHANGED <<zoomQ, dragState, marqueeState, isDragOver, dragOverTrack,
                   cues, selectedCue, selectedCueIds, now>>

\* handleTracksMouseDown, pointer in empty track space
TracksMouseDown(x, y, ctrlKey) ==
    /\ dragState = None
    /\ ~isDraggingScrubber
    /\ ~ \E i \in DOMAIN cues : Covers(cues[i], x, y)
    /\ Handled([name |-> "tracksDown", ctrlKey |-> ctrlKey])
    /\ marqueeState' = [isActive |-> TRUE, startX |-> x, startY |-> y,
                        currentX |-> x, currentY |-> y]
    /\ IF ctrlKey
       THEN UNCHANGED <<selectedCue, selectedCueIds>>
       ELSE /\ selectedCueIds' = SelectIds(None, FALSE, selectedCueIds)
            /\ selectedCue' = SelectPrimary(None, FALSE, selectedCueIds, cues)
    /\ UNCHANGED <<zoomQ, viewStartTime, isDraggingScrubber, dragState,
                   isDragOver, dragOverTrack, cues, currentTime, now>>

\* document mousemove: the handleMouseMove of every effect that is mounted
PointerMove(x, y) ==
    /\ dragState # None \/ isDraggingScrubber \/ marqueeState # None
    /\ Handled([name |-> "move", x |-> x])
    /\ LET updates == DragMoveUpdates(dragState, cues, x)
       IN  IF DOMAIN updates # {}
           THEN /\ cues' = UpdateCues(cues, dragState.cueId, updates)
                /\ selectedCue' =
                      UpdateSelected(selectedCue, dragState.cueId, updates)
           ELSE UNCHANGED <<cues, selectedCue>>
    /\ currentTime' = IF isDraggingScrubber THEN ScrubMoveTime(x)
                      ELSE currentTime
    /\ viewStartTime' = AutoAdjust(currentTime', viewStartTime, zoomQ)
    /\ marqueeState' = IF marqueeState # None
                       THEN [marqueeState EXCEPT !.currentX = x,
                                                 !.currentY = y]
                       ELSE marqueeState
    /\ UNCHANGED <<zoomQ, isDraggingScrubber, dragState, isDragOver,
                   dragOverTrack, selectedCueIds, now>>

\* document mouseup: the handleMouseUp of every effect that is mounted
PointerUp ==
    /\ dragState # None \/ isDraggingScrubber \/ marqueeState # None
    /\ Handled([name |-> "up", marquee |-> marqueeState])
    /\ dragState' = None
    /\ isDraggingScrubber' = FALSE
    /\ marqueeState' = None
    /\ IF marqueeState # None /\ MarqueeIsMeaningful(marqueeState)
       THEN LET ids == MarqueeIds(cues, MarqueeLeft(marqueeState),
                                  MarqueeTop(marqueeState),
                                  MarqueeWidth(marqueeState),
                                  MarqueeHeight(marqueeState))
            IN  /\ selectedCueIds' = ids
                /\ selectedCue' = MarqueePrimary(cues, ids)
       ELSE UNCHANGED <<selectedCue, selectedCueIds>>
    /\ UNCHANGED <<zoomQ, viewStartTime, isDragOver, dragOverTrack, cues,
                   currentTime, now>>

\* handleDragOver
DragOver(y) ==
    /\ Handled([name |-> "dragOver", y |-> y])
    /\ isDragOver' = TRUE
    /\ dragOverTrack' = TrackAt(y)
    /\ UNCHANGED <<zoomQ, viewStartTime, isDraggingScrubber, dragState,
                   marqueeState, editorVars, now>>

\* handleDragLeave; outside: relatedTarget is not inside the track area
DragLeave(outside) ==
    /\ isDragOver
    /\ Handled([name |-> "dragLeave", outside |-> outside])
    /\ isDragOver' = IF outside THEN FALSE ELSE isDragOver
    /\ dragOverTrack' = IF outside THEN NoTrack ELSE dragOverTrack
    /\ UNCHANGED <<zoomQ, viewStartTime, isDraggingScrubber, dragState,
                   marqueeState, editorVars, now>>

\* handleDrop, with handleAddCue for a payload from the library;
\* t is the reading of Date.now()
Drop(x, y, payload, t) ==
    /\ isDragOver
    /\ Handled([name |-> "drop", payload |-> payload, y |-> y,
                over |-> dragOverTrack])
    /\ isDragOver' = FALSE
    /\ dragOverTrack' = NoTrack
    /\ IF payload.type = "cue-from-library"
       THEN /\ Len(cues) < MaxCues
            /\ cues' = handleAddCue(cues, t, payload.cueType,
                                    pixelToTime(x), TrackAt(y))
            /\ now' = t
       ELSE UNCHANGED <<cues, now>>
    /\ UNCHANGED <<zoomQ, viewStartTime, isDraggingScrubber, dragState,
                   marqueeState, selectedCue, selectedCueIds, currentTime>>

\* handleKeyDown with Delete or Backspace: handleDeleteSelectedCues
DeleteKey ==
    /\ Handled([name |-> "deleteKey"])
    /\ cues' = DeleteCues(cues, selectedCueIds)
    /\ selectedCue' = DeletePrimary(selectedCue, selectedCueIds)
    /\ selectedCueIds' = DeleteIds(selectedCueIds)
    /\ UNCHANGED <<timelineVars, currentTime, now>>

\* handleZoomIn, then the playhead-follow effect
ZoomIn ==
    /\ Handled([name |-> "zoomIn", from |-> zoomQ, view |-> viewStartTime])
    /\ zoomQ' = ZoomInLevel(zoomQ)
    /\ viewStartTime' = AutoAdjust(currentTime,
                                   ZoomInStart(zoomQ, viewStartTime), zoomQ')
    /\ UNCHANGED <<isDraggingScrubber, dragState, marqueeState, isDragOver,
                   dragOverTrack, editorVars, now>>

\* handleZoomOut, then the playhead-follow effect
ZoomOut ==
    /\ Handled([name |-> "zoomOut", from |-> zoomQ, view |-> viewStartTime])
    /\ zoomQ' = ZoomOutLevel(zoomQ)
    /\ viewStartTime' = AutoAdjust(currentTime,
                                   ZoomOutStart(zoomQ, currentTime), zoomQ')
    /\ UNCHANGED <<isDraggingScrubber, dragState, marqueeState, isDragOver,
                   dragOverTrack, editorVars, now>>

Next ==
    \/ \E i \in 1..MaxCues, type \in {"move", "resize-left", "resize-right"},
          x \in BarXs, ctrlKey \in BOOLEAN : CueMouseDown(i, type, x, ctrlKey)
    \/ \E x \in BarXs : TimelineBarMouseDown(x)
    \/ \E p \in AreaPoints, ctrlKey \in BOOLEAN :
          TracksMouseDown(p[1], p[2], ctrlKey)
    \/ \E p \in Points : PointerMove(p[1], p[2])
    \/ PointerUp
    \/ \E p \in AreaPoints : DragOver(p[2])
    \/ \E outside \in BOOLEAN : DragLeave(outside)
    \/ \E p \in AreaPoints, payload \in Payloads, t \in now..MaxClock :
          Drop(p[1], p[2], payload, t)
    \/ DeleteKey
    \/ ZoomIn
    \/ ZoomOut

Spec == Init /\ [][Next]_vars

\* ------------------------------------------------- view session
\* Zooming, seeking and playback on an editor without cues, from the view
\* as constructed or as left by earlier zooms and seeks:
\*   1x; 0.25x (two zoom-outs); 2x panned to the second half; 16x (four
\*   zoom-ins with the playhead at 0)
AllViewSeeds == ViewSeeds \cup {[zq |-> MaxZoomQ, vst |-> 0, ct |-> 0]}
\* video.currentTime reported by the player
PlayTimes == {0, duration \div 4, duration \div 2, duration}

InitView ==
    /\ duration = Duration
    /\ \E v \in AllViewSeeds : /\ zoomQ = v.zq
                               /\ viewStartTime = v.vst
                               /\ currentTime = v.ct
    /\ isDraggingScrubber = FALSE
    /\ dragState = None
    /\ marqueeState = None
    /\ isDragOver = FALSE
    /\ dragOverTrack = NoTrack
    /\ cues = <<>>
    /\ selectedCue = None
    /\ selectedCueIds = {}
    /\ now = 1
    /\ ev = [name |-> "init"]
    /\ selBefore = {}
    /\ nEvents = 0

\* handleTimeUpdate(time), then the playhead-follow effect
TimeUpdate(time) ==
    /\ Handled([name |-> "timeUpdate", view |-> viewStartTime])
    /\ currentTime' = time
    /\ viewStartTime' = AutoAdjust(time, viewStartTime, zoomQ)
    /\ UNCHANGED <<zoomQ, isDraggingScrubber, dragState, marqueeState,
                   isDragOver, dragOverTrack, cues, selectedCue,
                   selectedCueIds, now>>

NextView ==
    \/ ZoomIn
    \/ ZoomOut
    \/ \E time \in PlayTimes : TimeUpdate(time)
    \/ \E x \in BarXs : TimelineBarMouseDown(x)
    \/ \E p \in Points : PointerMove(p[1], p[2])
    \/ PointerUp

SpecView == InitView /\ [][NextView]_vars

\* ------------------------------------------------- 60 s scenario
\* The view session on a video of 60 s, from the editor as constructed
\* (1x, view at 0) with the playhead at 10 s.
SixtySeconds == 60 * OneSecond
TenSeconds   == 10 * OneSecond

InitSixty ==
    /\ duration = SixtySeconds
    /\ zoomQ = 4
    /\ viewStartTime = 0
    /\ currentTime = TenSeconds
    /\ isDraggingScrubber = FALSE
    /\ dragState = None
    /\ marqueeState = None
    /\ isDragOver = FALSE
    /\ dragOverTrack = NoTrack
    /\ cues = <<>>
    /\ selectedCue = None
    /\ selectedCueIds = {}
    /\ now = 1
    /\ ev = [name |-> "init"]
    /\ selBefore = {}
    /\ nEvents = 0

SpecSixty == InitSixty /\ [][NextView]_vars

\* ------------------------------------------------- overrun session
\* The view session from the 0.25x view after the ruler was pressed at its
\* right end (x = TrackWidth) and released: handleTimelineBarMouseDown
\* sought pixelToTime(TrackWidth), four times the video's duration.
InitOverrun ==
    /\ duration = Duration
    /\ zoomQ = MinZoomQ
    /\ viewStartTime = 0
    /\ currentTime = PixelToTimeAt(TrackWidth, 0, MinZoomQ)
    /\ isDraggingScrubber = FALSE
    /\ dragState = None
    /\ marqueeState = None
    /\ isDragOver = FALSE
    /\ dragOverTrack = NoTrack
    /\ cues = <<>>
    /\ selectedCue = None
    /\ selectedCueIds = {}
    /\ now = 1
    /\ ev = [name |-> "init"]
    /\ selBefore = {}
    /\ nEvents = 0

SpecOverrun == InitOverrun /\ [][NextView]_vars

\* ------------------------------------------------- editing session
\* Inserting, editing and deleting cues through the library, the timeline
\* and the adjustments panel, with zooming and seeking in between, from the
\* editor as constructed or with one or two cues already dropped.
EditSeeds ==
    {<<>>,
     <<NewCue(1, "kick_hard", 0, 0)>>,
     <<NewCue(1, "kick_hard", 0, 0),
       NewCue(2, "ramp_up", Duration \div 2, 1)>>}
EditPayloads ==
    Payloads \cup {[type |-> "cue-from-library", cueType |-> "not_a_cue"]}
EditKinds   == {"pulse", "ramp_down"}
EditPoints  == {<<0, 0>>, <<400, 76>>}
\* where the pointer moves during a gesture: also left of the track area
MovePoints  == EditPoints \cup {<<0 - 200, 0>>}
\* the view: 1x, or 2x panned to the second half
EditViews   == {v \in ViewSeeds : v.zq >= 4}
\* where library items are dragged over and dropped: also below the last
\* track
DropPoints  == EditPoints \cup {<<TrackWidth, 400>>}
\* slider positions, in hundredths
SliderValues == {0, 100}
\* parseFloat(e.target.value) of the duration field, in ticks
DurationInputs == {[isNaN |-> TRUE, value |-> 0],
                   [isNaN |-> FALSE, value |-> 0],
                   [isNaN |-> FALSE, value |-> 0 - Tenth],
                   [isNaN |-> FALSE, value |-> OneSecond]}
StaticFields == {"intensity", "sharpness"}
RampFields   == {"intensity_start", "intensity_end",
                 "sharpness_start", "sharpness_end"}
\* the value each reset button writes, in hundredths
ResetValue(field) ==
    CASE field = "intensity_start" -> 10
      [] field = "intensity_end"   -> 100
      [] field = "sharpness_start" -> 10
      [] field = "sharpness_end"   -> 70
      [] field = "intensity"       -> 80
      [] field = "sharpness"       -> 50

InitEdit ==
    /\ duration = Duration
    /\ \E v \in EditViews : /\ zoomQ = v.zq
                            /\ viewStartTime = v.vst
                            /\ currentTime = v.ct
    /\ isDraggingScrubber = FALSE
    /\ dragState = None
    /\ marqueeState = None
    /\ isDragOver = FALSE
    /\ dragOverTrack = NoTrack
    /\ cues \in EditSeeds
    /\ selectedCue = None
    /\ selectedCueIds = {}
    /\ now = IF cues = <<>> THEN 1 ELSE cues[Len(cues)].id
    /\ ev = [name |-> "init"]
    /\ selBefore = {}
    /\ nEvents = 0

\* CueLibrary handleDoubleClick(type): onAddCue(type, currentTime, 0);
\* t is the reading of Date.now()
LibraryDoubleClick(type, t) ==
    /\ Len(cues) < MaxCues
    /\ Handled([name |-> "doubleClick", type |-> type])
    /\ cues' = handleAddCue(cues, t, type, currentTime, 0)
    /\ now' = t
    /\ UNCHANGED <<timelineVars, selectedCue, selectedCueIds, currentTime>>

\* AdjustmentsPanel slider handlers: handleIntensityChange, ...,
\* handleSharpnessEndChange; the panel shows cue = selectedCue
PanelSlider(field, value) ==
    /\ selectedCue # None
    /\ Handled([name |-> "panelSlider", field |-> field])
    /\ IF (field \in RampFields) = IsRampKind(selectedCue.type)
       THEN /\ cues' = UpdateCues(cues, selectedCue.id, field :> value)
            /\ selectedCue' =
                  UpdateSelected(selectedCue, selectedCue.id, field :> value)
       ELSE UNCHANGED <<cues, selectedCue>>
    /\ UNCHANGED <<timelineVars, selectedCueIds, currentTime, now>>

\* AdjustmentsPanel reset buttons, rendered for the fields of the panel's
\* branch (isRamp or not)
PanelReset(field) ==
    /\ selectedCue # None
    /\ (field \in RampFields) = IsRampKind(selectedCue.type)
    /\ Handled([name |-> "panelReset", field |-> field])
    /\ cues' = UpdateCues(cues, selectedCue.id, field :> ResetValue(field))
    /\ selectedCue' = UpdateSelected(selectedCue, selectedCue.id,
                                     field :> ResetValue(field))
    /\ UNCHANGED <<timelineVars, selectedCueIds, currentTime, now>>

\* AdjustmentsPanel handleDurationChange; input is parseFloat's result
PanelDuration(input) ==
    /\ selectedCue # None
    /\ Handled([name |-> "panelDuration", input |-> input])
    /\ IF ~input.isNaN /\ input.value > 0
       THEN /\ cues' = UpdateCues(cues, selectedCue.id,
                                  "duration" :> input.value)
            /\ selectedCue' = UpdateSelected(selectedCue, selectedCue.id,
                                             "duration" :> input.value)
       ELSE UNCHANGED <<cues, selectedCue>>
    /\ UNCHANGED <<timelineVars, selectedCueIds, currentTime, now>>

\* AdjustmentsPanel handleDelete: handleDeleteCue(selectedCue.id)
PanelDelete ==
    /\ selectedCue # None
    /\ Handled([name |-> "panelDelete"])
    /\ cues' = DeleteCueById(cues, selectedCue.id)
    /\ selectedCue' = DeleteCuePrimary(selectedCue, selectedCue.id)
    /\ UNCHANGED <<timelineVars, selectedCueIds, currentTime, now>>

\* mutant of ExportCue: every cue is written with the static fields
ExportCue_StaticShape(cue) ==
    [timestamp |-> cue.startTime, duration |-> cue.duration,
     type |-> cue.type]
    @@ [f \in StaticFields \cap DOMAIN cue |-> cue[f]]

\* handleExport: the record written for one cue; JSON.stringify leaves out
\* a property whose value is undefined
ExportCue(cue) ==
    [timestamp |-> cue.startTime, duration |-> cue.duration,
     type |-> cue.type]
    @@ [f \in (IF IsRampKind(cue.type) THEN RampFields ELSE StaticFields)
               \cap DOMAIN cue |-> cue[f]]

\* handleExport, the cues of haptics.json (a video is loaded in every
\* snapshot, so videoFile is not null)
Export ==
    /\ Handled([name |-> "export",
                cues |-> [i \in DOMAIN cues |-> ExportCue(cues[i])]])
    /\ UNCHANGED <<timelineVars, editorVars, now>>

NextEdit ==
    \/ \E type \in EditKinds, t \in now..MaxClock : LibraryDoubleClick(type, t)
    \/ \E p \in DropPoints : DragOver(p[2])
    \/ \E p \in DropPoints, payload \in EditPayloads, t \in now..MaxClock :
          Drop(p[1], p[2], payload, t)
    \/ \E i \in 1..MaxCues, p \in EditPoints, ctrlKey \in BOOLEAN,
          type \in {"move", "resize-left", "resize-right"} :
          CueMouseDown(i, type, p[1], ctrlKey)
    \/ \E p \in MovePoints : PointerMove(p[1], p[2])
    \/ PointerUp
    \/ \E p \in EditPoints : TimelineBarMouseDown(p[1])
    \/ ZoomIn
    \/ ZoomOut
    \/ \E field \in StaticFields \cup RampFields, value \in SliderValues :
          PanelSlider(field, value)
    \/ \E field \in StaticFields \cup RampFields : PanelReset(field)
    \/ \E input \in DurationInputs : PanelDuration(input)
    \/ PanelDelete
    \/ DeleteKey
    \/ Export

SpecEdit == InitEdit /\ [][NextEdit]_vars

\* ------------------------------------------------- selection session
\* Clicking, marquee starts and deletes on an editor at 1x holding a
\* kick_hard (id 1) and a ramp_up (id 2), from one of these selections with
\* no gesture in progress:
\*   nothing selected; cue 1 selected by a plain click; cue 1 selected by a
\*   plain click and cue 2 added by a modifier click
SelectCues ==
    <<NewCue(1, "kick_hard", 0, 0), NewCue(2, "ramp_up", Duration \div 2, 1)>>
SelectSeeds ==
    {[ids |-> {}, primary |-> None],
     [ids |-> {1}, primary |-> SelectCues[1]],
     [ids |-> {1, 2}, primary |-> SelectCues[2]]}

InitSelect ==
    /\ duration = Duration
    /\ zoomQ = 4
    /\ viewStartTime = 0
    /\ currentTime = 0
    /\ isDraggingScrubber = FALSE
    /\ dragState = None
    /\ marqueeState = None
    /\ isDragOver = FALSE
    /\ dragOverTrack = NoTrack
    /\ cues = SelectCues
    /\ \E sel \in SelectSeeds : /\ selectedCueIds = sel.ids
                                /\ selectedCue = sel.primary
    /\ now = 2
    /\ ev = [name |-> "init"]
    /\ selBefore = {}
    /\ nEvents = 0

\* handleVideoUpload(file); the audio extraction it starts touches neither
\* the cues nor the selection
VideoUpload ==
    /\ Handled([name |-> "videoUpload"])
    /\ cues' = <<>>
    /\ selectedCue' = None
    /\ UNCHANGED <<timelineVars, selectedCueIds, currentTime, now>>

NextSelect ==
    \/ \E i \in 1..MaxCues, p \in EditPoints, ctrlKey \in BOOLEAN :
          CueMouseDown(i, "move", p[1], ctrlKey)
    \/ \E p \in AreaPoints, ctrlKey \in BOOLEAN :
          TracksMouseDown(p[1], p[2], ctrlKey)
    \/ \E p \in Points : PointerMove(p[1], p[2])
    \/ PointerUp
    \/ PanelDelete
    \/ DeleteKey
    \/ VideoUpload

SpecSelect == InitSelect /\ [][NextSelect]_vars

\* ------------------------------------------------- resize session
\* A resize-left gesture in progress: one cue, pressed on its left handle
\* at clientX = ResizeStartX, in one of the views of ViewSeeds; the pointer
\* then moves and is released.
\*   the cue - a kick_hard or a ramp_up, as inserted, moved to 1.1 s, 1.6 s
\*             1.7 s or 40 s
ResizeStartX == 400
ResizeStarts == {11 * Tenth, 16 * Tenth, 17 * Tenth, Duration \div 2}
ResizeKinds  == {"kick_hard", "ramp_up"}
ResizeXs     == {200, 363, 396, 400, 404, 437}

InitResize ==
    /\ duration = Duration
    /\ \E v \in ViewSeeds : /\ zoomQ = v.zq
                            /\ viewStartTime = v.vst
                            /\ currentTime = v.ct
    /\ isDraggingScrubber = FALSE
    /\ marqueeState = None
    /\ isDragOver = FALSE
    /\ dragOverTrack = NoTrack
    /\ \E type \in ResizeKinds, startTime \in ResizeStarts :
          cues = <<NewCue(1, type, startTime, 0)>>
    /\ dragState = [type |-> "resize-left", cueId |-> cues[1].id,
                    startX |-> ResizeStartX,
                    startTime |-> cues[1].startTime,
                    startDuration |-> cues[1].duration]
    /\ selectedCue = cues[1]
    /\ selectedCueIds = {cues[1].id}
    /\ now = 1
    /\ ev = [name |-> "init"]
    /\ selBefore = {}
    /\ nEvents = 0

NextResize ==
    \/ \E x \in ResizeXs : PointerMove(x, 0)
    \/ PointerUp

SpecResize == InitResize /\ [][NextResize]_vars

\* ------------------------------------------------- drag session
\* A drag of cue 1 in progress at 1x (pressed at x = 0 without a modifier,
\* so cue 1 is selected and primary), with a second cue present; the
\* pointer moves and is released while the keyboard, the property panel and
\* a library drag stay available.
InitDrag ==
    /\ duration = Duration
    /\ zoomQ = 4
    /\ viewStartTime = 0
    /\ currentTime = 0
    /\ isDraggingScrubber = FALSE
    /\ marqueeState = None
    /\ isDragOver = FALSE
    /\ dragOverTrack = NoTrack
    /\ cues = SelectCues
    /\ \E type \in {"move", "resize-left", "resize-right"} :
          dragState = [type |-> type, cueId |-> cues[1].id, startX |-> 0,
                       startTime |-> cues[1].startTime,
                       startDuration |-> cues[1].duration]
    /\ selectedCue = cues[1]
    /\ selectedCueIds = {cues[1].id}
    /\ now = 2
    /\ ev = [name |-> "init"]
    /\ selBefore = {}
    /\ nEvents = 0

NextDrag ==
    \/ \E p \in MovePoints : PointerMove(p[1], p[2])
    \/ PointerUp
    \/ DeleteKey
    \/ PanelDelete
    \/ \E p \in DropPoints : DragOver(p[2])

SpecDrag == InitDrag /\ [][NextDrag]_vars

\* ------------------------------------------------- marquee session
\* Marquee gestures at 1x over a kick_hard at 0 s on track 0 and a ramp_up
\* at 40 s on track 1, inserted one clock reading apart (ids 1 and 2) or
\* within the same clock reading (both id 1), with nothing or the first cue
\* selected.
MarqueeCues == CueSeeds \ {<<>>}
MarqueePoints == {<<4, 34>>, <<200, 34>>, <<10, 80>>, <<400, 110>>}

InitMarquee ==
    /\ duration = Duration
    /\ zoomQ = 4
    /\ viewStartTime = 0
    /\ currentTime = 0
    /\ isDraggingScrubber = FALSE
    /\ dragState = None
    /\ marqueeState = None
    /\ isDragOver = FALSE
    /\ dragOverTrack = NoTrack
    /\ cues \in MarqueeCues
    /\ \/ selectedCue = None /\ selectedCueIds = {}
       \/ selectedCue = cues[1] /\ selectedCueIds = {cues[1].id}
    /\ now = cues[Len(cues)].id
    /\ ev = [name |-> "init"]
    /\ selBefore = {}
    /\ nEvents = 0

NextMarquee ==
    \/ \E p \in MarqueePoints, ctrlKey \in BOOLEAN :
          TracksMouseDown(p[1], p[2], ctrlKey)
    \/ \E p \in MarqueePoints : PointerMove(p[1], p[2])
    \/ PointerUp

SpecMarquee == InitMarquee /\ [][NextMarquee]_vars

\* ------------------------------------------------- editor operations
\* The operations HaptoEditor hands to its children as props, called with
\* arguments drawn from small sets: onAddCue (handleAddCue) and onUpdate /
\* onCueUpdate (handleUpdateCue).
\*   OpsSeeds  - no cue; two cues on track 0 covering [0, 1 s] and [1 s, 2 s];
\*               one cue on each of the eight tracks covering [0, 1 s];
\*               a kick_hard and a ramp_up as dropped
OpsSeeds ==
    {<<>>,
     <<[NewCue(1, "kick_hard", 0, 0) EXCEPT !.duration = OneSecond],
       [NewCue(2, "pulse", OneSecond, 0) EXCEPT !.duration = OneSecond]>>,
     [k \in 1..NumTracks |->
        [NewCue(k, "kick_soft", 0, k - 1) EXCEPT !.duration = OneSecond]],
     <<NewCue(1, "kick_hard", 0, 0),
       NewCue(2, "ramp_up", Duration \div 2, 1)>>}
OpsTimes   == {0, OneSecond \div 2, OneSecond}
OpsTargets == {NoTarget, NumTracks - 1}
OpsPatches == {"duration" :> 0, "duration" :> (0 - Tenth),
               "startTime" :> (0 - Tenth), "duration" :> Tenth,
               "startTime" :> Tenth}

InitOps ==
    /\ duration = Duration
    /\ zoomQ = 4
    /\ viewStartTime = 0
    /\ currentTime = 0
    /\ isDraggingScrubber = FALSE
    /\ dragState = None
    /\ marqueeState = None
    /\ isDragOver = FALSE
    /\ dragOverTrack = NoTrack
    /\ cues \in OpsSeeds
    /\ selectedCue = None
    /\ selectedCueIds = {}
    /\ now = IF cues = <<>> THEN 1 ELSE cues[Len(cues)].id
    /\ ev = [name |-> "init"]
    /\ selBefore = {}
    /\ nEvents = 0

\* handleAddCue(type, startTime, targetTrack); t is the reading of Date.now()
AddCue(type, startTime, targetTrack, t) ==
    /\ nEvents < MaxOps
    /\ Handled([name |-> "addCue", type |-> type, startTime |-> startTime,
                target |-> targetTrack])
    /\ cues' = handleAddCue(cues, t, type, startTime, targetTrack)
    /\ now' = t
    /\ UNCHANGED <<timelineVars, selectedCue, selectedCueIds, currentTime>>

\* handleUpdateCue(cueId, updates)
UpdateCue(cueId, updates) ==
    /\ nEvents < MaxOps
    /\ HasCue(cues, cueId)
    /\ Handled([name |-> "updateCue", cue |-> cueId, updates |-> updates])
    /\ cues' = UpdateCues(cues, cueId, updates)
    /\ selectedCue' = UpdateSelected(selectedCue, cueId, updates)
    /\ UNCHANGED <<timelineVars, selectedCueIds, currentTime, now>>

NextOps ==
    \/ \E type \in CueKinds, startTime \in OpsTimes,
          targetTrack \in OpsTargets, t \in now..(now + 1) :
          AddCue(type, startTime, targetTrack, t)
    \/ \E cueId \in 1..NumTracks, updates \in OpsPatches :
          UpdateCue(cueId, updates)

SpecOps == InitOps /\ [][NextOps]_vars


\* ------------------------------------------------- waveform synthesis
\* generateWaveformData(cue, width, height, zoomLevel) and the generators
\* it dispatches to.  x is computed in the rounded arithmetic above.  y is
\* computed where it is a closed formula of the cue's fields (the flat
\* fallback of the ramp generator) or not a number; a y that the generators
\* take from Math.sin, Math.pow, Math.exp or Math.random is NotEvaluated.
NaN          == [kind |-> "NaN"]
NotEvaluated == [kind |-> "notEvaluated"]
Number(v)    == [kind |-> "number", value |-> v]

\* the largest r with r * r <= n, for n < 2^30
RECURSIVE SqrtSearch(_, _, _)
SqrtSearch(n, lo, hi) ==
    IF lo = hi THEN lo
    ELSE LET mid == (lo + hi + 1) \div 2
         IN  IF mid * mid <= n THEN SqrtSearch(n, mid, hi)
             ELSE SqrtSearch(n, lo, mid - 1)
FloorSqrt(n) == SqrtSearch(n, 0, Pow2(15))

\* floor(duration * baseSampleRate * sqrt(zoomLevel)): with the duration in
\* ticks and the zoom in quarters, (t / 160) * 60 * sqrt(zq / 4) =
\* sqrt(9 * t * t * zq) / 16
RawSampleCount(t, zq) == FloorSqrt(9 * t * t * zq) \div 16

\* mutant of sampleCount: the lower limit of 32 is left out
sampleCount_NoMinimum(t, zq) == Min(512, RawSampleCount(t, zq))

\* sampleCount = max(32, min(512, floor(...)))
sampleCount(t, zq) == Max(32, Min(512, RawSampleCount(t, zq)))

\* x = (i / (sampleCount - 1)) * width
SampleX(i, n, width) ==
    NumMul(NumDiv(Num(i, 1), Num(n - 1, 1)), Num(width, 1))

\* the generators of the static kinds and the default case: one point per
\* sample
generateAccurateStaticWave(cue, width, height, n) ==
    [k \in 1..n |-> [x |-> SampleX(k - 1, n, width), y |-> NotEvaluated]]

\* generateAccurateRampWave; isRampCue looks at the kind only.  The flat
\* fallback's y = centerY - intensity * height * 0.4 * 0.5 is kept in
\* thousandths of a pixel, the intensity being in hundredths.
generateAccurateRampWave(cue, width, height, n) ==
    IF ~IsRampKind(cue.type)
    THEN LET y == IF "intensity" \in DOMAIN cue
                  THEN Number(height * (500 - 2 * cue.intensity))
                  ELSE NaN
         IN  [k \in 1..n |-> [x |-> SampleX(k - 1, n, width), y |-> y]]
    ELSE LET y == IF {"intensity_start", "intensity_end", "sharpness_start",
                      "sharpness_end"} \subseteq DOMAIN cue
                  THEN NotEvaluated
                  ELSE NaN
         IN  [k \in 1..n |-> [x |-> SampleX(k - 1, n, width), y |-> y]]

generateWaveformData(cue, width, height, zq) ==
    IF cue.type \in {"ramp_up", "ramp_down"}
    THEN generateAccurateRampWave(cue, width, height,
                                  sampleCount(cue.duration, zq))
    ELSE generateAccurateStaticWave(cue, width, height,
                                    sampleCount(cue.duration, zq))

\* the cues, sizes and zoom levels synthesis is asked for: every kind with
\* its defaults, and ramp kinds whose payload lacks ramp fields
SynthDurations == {Tenth, StaticDuration, RampDuration, 8 * OneSecond}
SynthWidths    == {0, 100, TrackWidth}
SynthZooms     == {MinZoomQ, 2, 4, 8, MaxZoomQ}
StaticPayload(type) ==
    [id |-> 1, type |-> type, startTime |-> 0, duration |-> RampDuration,
     intensity |-> 80, sharpness |-> 50, track |-> 0]
SynthCues ==
    {[NewCue(1, type, 0, 0) EXCEPT !.duration = d] :
        type \in CueKinds, d \in SynthDurations}
    \cup {[StaticPayload(type) EXCEPT !.duration = d] :
             type \in RampKinds, d \in SynthDurations}
    \cup {[id |-> 1, type |-> "ramp_up", startTime |-> 0, duration |-> d,
           track |-> 0, intensity_start |-> 10, intensity_end |-> 100,
           sharpness_start |-> 10] : d \in SynthDurations}

InitSynth ==
    /\ duration = Duration
    /\ zoomQ = 4
    /\ viewStartTime = 0
    /\ currentTime = 0
    /\ isDraggingScrubber = FALSE
    /\ dragState = None
    /\ marqueeState = None
    /\ isDragOver = FALSE
    /\ dragOverTrack = NoTrack
    /\ cues = <<>>
    /\ selectedCue = None
    /\ selectedCueIds = {}
    /\ now = 1
    /\ \E cue \in SynthCues, width \in SynthWidths, zq \in SynthZooms :
          ev = [name |-> "render", cue |-> cue, width |-> width,
                height |-> CueHeight, zoom |-> zq]
    /\ selBefore = {}
    /\ nEvents = 0

\* WaveformDisplay: generateWaveformData(cue, width, height, zoomLevel)
Synthesize ==
    /\ ev.name = "render"
    /\ Handled([name |-> "synthesized", cue |-> ev.cue, width |-> ev.width,
                height |-> ev.height, zoom |-> ev.zoom,
                points |-> generateWaveformData(ev.cue, ev.width, ev.height,
                                                ev.zoom)])
    /\ UNCHANGED <<timelineVars, editorVars, now>>

NextSynth == Synthesize

SpecSynth == InitSynth /\ [][NextSynth]_vars

\* ------------------------------------------------- gesture states
DraggingCue         == dragState # None
Scrubbing           == isDraggingScrubber
MarqueeSelecting    == marqueeState # None
DragOverFromLibrary == isDragOver
ActiveGestures ==
    (IF DraggingCue THEN 1 ELSE 0) + (IF Scrubbing THEN 1 ELSE 0)
    + (IF MarqueeSelecting THEN 1 ELSE 0)
    + (IF DragOverFromLibrary THEN 1 ELSE 0)

\* the cues a drag state points at
DraggedIndexes(cs, ds) == {i \in DOMAIN cs : cs[i].id = ds.cueId}

\* ------------------------------------------------- C1
\* C1: in every reachable state at most one of DraggingCue, Scrubbing,
\* MarqueeSelecting and DragOverFromLibrary is active.
C1_AtMostOneGesture == ActiveGestures <= 1

\* ------------------------------------------------- C2
\* C2: a pointer-up, a drop and a drag-leave out of the track area each end
\* in Idle: after the event no gesture is active, and after a drop or such a
\* drag-leave the hovered track is cleared as well.
C2_GestureEndsInIdle ==
    [][/\ ev'.name = "up" => ActiveGestures' = 0
       /\ (ev'.name = "drop" \/ (ev'.name = "dragLeave" /\ ev'.outside))
            => /\ ~isDragOver'
               /\ dragOverTrack' = NoTrack
               /\ ActiveGestures' = 0]_vars

\* ------------------------------------------------- C3
\* C3: a move update of a DraggingCue/move gesture sets the dragged cue's
\* startTime to clamp(0, totalDuration - startDuration, startTime + deltaTime),
\* deltaTime being the delta the handler computes from the pointer;
\* afterwards startTime >= 0, and startTime + startDuration <= totalDuration
\* whenever startDuration <= totalDuration.
C3_MoveIsClamped ==
    [][(ev'.name = "move" /\ DraggingCue /\ dragState.type = "move") =>
        \A i \in DraggedIndexes(cues, dragState) :
            LET deltaTime == pixelToTime(ev'.x - dragState.startX)
                lo == 0
                hi == duration - dragState.startDuration
                t  == dragState.startTime + deltaTime
            IN  /\ cues'[i].startTime =
                      (IF t < lo THEN lo ELSE IF hi < lo THEN lo
                       ELSE IF t > hi THEN hi ELSE t)
                /\ cues'[i].startTime >= 0
                /\ dragState.startDuration <= duration =>
                      cues'[i].startTime + dragState.startDuration <= duration
      ]_vars

\* a move update that hit the upper clamp, away from where the drag began
C3_Witness ==
    /\ ev.name = "move"
    /\ DraggingCue
    /\ dragState.type = "move"
    /\ \E i \in DraggedIndexes(cues, dragState) :
          /\ cues[i].startTime = duration - dragState.startDuration
          /\ cues[i].startTime # dragState.startTime

\* ------------------------------------------------- C4
\* C4: a resize-left update is applied only when the computed duration'
\* = startDuration - (startTime' - startTime), startTime' = max(0, startTime
\* + deltaTime), is > 0.1 s, and then leaves the cue with that startTime' and
\* duration' (> 0.1 s); otherwise every cue keeps its startTime and duration.
C4_ResizeLeftKeepsMinimum ==
    [][(ev'.name = "move" /\ DraggingCue /\ dragState.type = "resize-left") =>
        LET deltaTime == pixelToTime(ev'.x - dragState.startX)
            start1    == IF dragState.startTime + deltaTime < 0 THEN 0
                         ELSE dragState.startTime + deltaTime
            duration1 == dragState.startDuration
                         - (start1 - dragState.startTime)
        IN  IF duration1 > Tenth
            THEN \A i \in DraggedIndexes(cues, dragState) :
                    /\ cues'[i].startTime = start1
                    /\ cues'[i].duration = duration1
                    /\ cues'[i].duration > Tenth
            ELSE cues' = cues
      ]_vars

\* a resize-left move whose computed duration is exactly 0.1 s was rejected
C4_Witness ==
    /\ ev.name = "move"
    /\ DraggingCue
    /\ dragState.type = "resize-left"
    /\ ~Scrubbing
    /\ LET start1 == Max(0, dragState.startTime
                            + pixelToTime(ev.x - dragState.startX))
       IN  /\ dragState.startDuration - (start1 - dragState.startTime) = Tenth
           /\ \E i \in DraggedIndexes(cues, dragState) :
                 /\ cues[i].startTime = dragState.startTime
                 /\ cues[i].duration = dragState.startDuration

\* ------------------------------------------------- C5
\* C5: a resize-right update writes duration' = max(0.1, startDuration +
\* deltaTime) only when startTime + duration' <= totalDuration, and then
\* leaves every cue it is written to with duration >= 0.1 s and startTime +
\* duration <= totalDuration; otherwise every cue is left unchanged.
C5_ResizeRightStaysInside ==
    [][(ev'.name = "move" /\ DraggingCue /\ dragState.type = "resize-right") =>
        LET deltaTime == pixelToTime(ev'.x - dragState.startX)
            duration1 == IF dragState.startDuration + deltaTime < Tenth
                         THEN Tenth
                         ELSE dragState.startDuration + deltaTime
        IN  IF dragState.startTime + duration1 <= duration
            THEN \A i \in DraggedIndexes(cues, dragState) :
                    /\ cues'[i].duration = duration1
                    /\ cues'[i].duration >= Tenth
                    /\ cues'[i].startTime + cues'[i].duration <= duration
            ELSE cues' = cues
      ]_vars

\* ------------------------------------------------- C6
\* C6: every time seeked while Scrubbing is in progress, by the pointer-down
\* on the ruler and by each following pointer-move, lies in
\* [0, totalDuration].
C6_ScrubSeeksInRange ==
    (Scrubbing /\ ev.name \in {"barDown", "move"}) =>
        (0 <= currentTime /\ currentTime <= duration)


\* ------------------------------------------------- C7
\* the box renderCue draws lies fully inside the marquee rectangle m
InsideOnScreen(cue, m) ==
    /\ IsVisible(cue)
    /\ ScaledPx(MarqueeLeft(m)) <= BoxLeftNum(cue)
    /\ BoxRightNum(cue) <= ScaledPx(MarqueeLeft(m) + MarqueeWidth(m))
    /\ MarqueeTop(m) <= BoxTop(cue)
    /\ BoxBottom(cue) <= MarqueeTop(m) + MarqueeHeight(m)

\* the cue is not drawn, or its drawn box shares no point with m
DisjointOnScreen(cue, m) ==
    \/ ~IsVisible(cue)
    \/ BoxRightNum(cue) < ScaledPx(MarqueeLeft(m))
    \/ BoxLeftNum(cue) > ScaledPx(MarqueeLeft(m) + MarqueeWidth(m))
    \/ BoxBottom(cue) < MarqueeTop(m)
    \/ BoxTop(cue) > MarqueeTop(m) + MarqueeHeight(m)

\* C7: on release of a marquee above the 5 px threshold every cue whose
\* on-screen box lies fully inside the rectangle is in the resulting
\* selection, and if the rectangle is disjoint from every on-screen box the
\* resulting selection is empty.
C7_MarqueeSelectsWhatIsDrawn ==
    [][(ev'.name = "up" /\ MarqueeSelecting
        /\ MarqueeIsMeaningful(marqueeState)) =>
        /\ \A i \in DOMAIN cues :
              InsideOnScreen(cues[i], marqueeState)
                 => cues[i].id \in selectedCueIds'
        /\ (\A i \in DOMAIN cues : DisjointOnScreen(cues[i], marqueeState))
              => selectedCueIds' = {}
      ]_vars

\* ------------------------------------------------- C8
\* C8: two consecutive modifier-held pointer-downs on the same cue leave the
\* multi-selection set as it was before the first of them.
C8_ToggleTwiceRestores ==
    [][(/\ ev.name = "cueDown" /\ ev.ctrlKey
        /\ ev'.name = "cueDown" /\ ev'.ctrlKey
        /\ ev'.cue = ev.cue)
       => selectedCueIds' = selBefore]_vars

\* the second of two modifier clicks on one cue has been handled: it took
\* the cue out again, and other cues stayed selected throughout
C8_Witness ==
    /\ ev.name = "cueDown" /\ ev.ctrlKey /\ ev.repeated
    /\ selBefore = selectedCueIds \cup {ev.cue}
    /\ ev.cue \notin selectedCueIds
    /\ selectedCueIds # {}

\* the same, in the other order: toggled out, then in again
C8_WitnessOutIn ==
    /\ ev.name = "cueDown" /\ ev.ctrlKey /\ ev.repeated
    /\ ev.cue \in selectedCueIds
    /\ ev.cue \notin selBefore

\* ------------------------------------------------- C9
\* C9: a pointer-down on a cue with no modifier makes the multi-selection
\* set exactly {that cue's id} and makes that cue the primary.
C9_PlainClickSelectsOnlyThatCue ==
    [][(ev'.name = "cueDown" /\ ~ev'.ctrlKey) =>
        /\ selectedCueIds' = {dragState'.cueId}
        /\ selectedCue' # None
        /\ \E i \in DOMAIN cues : /\ selectedCue' = cues[i]
                                  /\ cues[i].id = dragState'.cueId
                                  /\ cues[i].startTime = dragState'.startTime
                                  /\ cues[i].duration = dragState'.startDuration
      ]_vars

\* a plain click on a cue replaced a selection that held another cue
C9_Witness ==
    /\ ev.name = "cueDown"
    /\ ~ev.ctrlKey
    /\ selBefore # {}
    /\ dragState.cueId \notin selBefore
    /\ selectedCueIds = {dragState.cueId}
    /\ selectedCue # None

\* ------------------------------------------------- C10
\* C10: Delete/Backspace removes exactly the cues whose id is selected, in
\* place, leaves the others as they were, and empties the selection and the
\* primary; with nothing selected it changes neither cues nor primary.
C10_DeleteRemovesSelection ==
    [][ev'.name = "deleteKey" =>
        IF selectedCueIds = {}
        THEN cues' = cues /\ selectedCue' = selectedCue
        ELSE LET kept == {i \in DOMAIN cues : cues[i].id \notin selectedCueIds}
             IN  /\ Len(cues') = Cardinality(kept)
                 /\ \A j \in DOMAIN cues' :
                       \E i \in kept :
                          /\ cues'[j] = cues[i]
                          /\ Cardinality({k \in kept : k < i}) = j - 1
                 /\ selectedCueIds' = {}
                 /\ selectedCue' = None
      ]_vars

\* Delete removed the selected cues and left an unselected one in place
C10_Witness ==
    /\ ev.name = "deleteKey"
    /\ selBefore # {}
    /\ cues # <<>>
    /\ \A i \in DOMAIN cues : cues[i].id \notin selBefore
    /\ selectedCueIds = {}
    /\ selectedCue = None

\* ------------------------------------------------- C11
\* is track k occupied at instant t: some cue on k with startTime <= t <=
\* startTime + duration
OccupiedAt(cs, k, t) ==
    \E i \in DOMAIN cs : /\ cs[i].track = k
                         /\ cs[i].startTime <= t
                         /\ t <= cs[i].startTime + cs[i].duration

\* C11: an insertion with no explicit target track at time t places the new
\* cue on the lowest track of 0..7 that is not occupied at t, and on track 0
\* when all eight tracks are occupied at t.
C11_LowestFreeTrack ==
    [][(ev'.name = "addCue" /\ ev'.target = NoTarget) =>
        /\ Len(cues') = Len(cues) + 1
        /\ LET new == cues'[Len(cues')]
               t   == ev'.startTime
           IN  IF \A k \in 0..7 : OccupiedAt(cues, k, t)
               THEN new.track = 0
               ELSE /\ new.track \in 0..7
                    /\ ~OccupiedAt(cues, new.track, t)
                    /\ \A k \in 0..(new.track - 1) : OccupiedAt(cues, k, t)
      ]_vars

\* the scenario: cues on track 0 over [0, 1 s) and [1 s, 2 s), an insertion
\* at 0.5 s with no target track has landed on track 1
C11_Witness ==
    /\ ev.name = "addCue" /\ ev.target = NoTarget
    /\ ev.startTime = OneSecond \div 2
    /\ Len(cues) = 3
    /\ cues[1].track = 0 /\ cues[1].startTime = 0
    /\ cues[1].duration = OneSecond
    /\ cues[2].track = 0 /\ cues[2].startTime = OneSecond
    /\ cues[2].duration = OneSecond
    /\ cues[3].track = 1

\* all eight tracks occupied at the instant: the insertion fell back to 0
C11_WitnessFallback ==
    /\ ev.name = "addCue" /\ ev.target = NoTarget
    /\ Len(cues) = NumTracks + 1
    /\ \A k \in 0..7 : OccupiedAt(SubSeq(cues, 1, NumTracks), k, ev.startTime)
    /\ cues[Len(cues)].track = 0

\* ------------------------------------------------- C12
\* C12: creating a cue appends exactly one cue with the requested kind,
\* start time and track and the defaults of its kind - duration 0.5 s,
\* intensity 0.8, sharpness 0.5 for the eight non-ramp kinds; duration 2 s
\* with intensity 0.1 -> 1.0 and sharpness 0.1 -> 0.7 for ramp_up; duration
\* 2 s with intensity 1.0 -> 0.1 and sharpness 0.7 -> 0.1 for ramp_down - and
\* leaves every existing cue as it was.
C12_CreateAppendsDefaults ==
    [][ev'.name = "addCue" =>
        /\ Len(cues') = Len(cues) + 1
        /\ SubSeq(cues', 1, Len(cues)) = cues
        /\ LET new == cues'[Len(cues')]
           IN  /\ new.type = ev'.type
               /\ new.startTime = ev'.startTime
               /\ ev'.target # NoTarget => new.track = ev'.target
               /\ IF ev'.type = "ramp_up"
                  THEN /\ new.duration = 20 * Tenth
                       /\ new.intensity_start = 10 /\ new.intensity_end = 100
                       /\ new.sharpness_start = 10 /\ new.sharpness_end = 70
                  ELSE IF ev'.type = "ramp_down"
                  THEN /\ new.duration = 20 * Tenth
                       /\ new.intensity_start = 100 /\ new.intensity_end = 10
                       /\ new.sharpness_start = 70 /\ new.sharpness_end = 10
                  ELSE /\ new.duration = 5 * Tenth
                       /\ new.intensity = 80
                       /\ new.sharpness = 50
      ]_vars

\* a ramp_down was created on a requested track after two existing cues
C12_Witness ==
    /\ ev.name = "addCue" /\ ev.type = "ramp_down"
    /\ ev.target = NumTracks - 1
    /\ Len(cues) = 3
    /\ cues[3].type = "ramp_down"
    /\ cues[3].track = NumTracks - 1
    /\ cues[3].intensity_start = 100

\* ------------------------------------------------- C13
\* C13: after update(id, patch) with a patch that would set duration <= 0 or
\* startTime < 0, every stored cue is unchanged or has duration > 0 and
\* startTime >= 0.
C13_UpdateRejectsInvalid ==
    [][(/\ ev'.name = "updateCue"
        /\ \/ ("duration" \in DOMAIN ev'.updates /\ ev'.updates["duration"] <= 0)
           \/ ("startTime" \in DOMAIN ev'.updates
                  /\ ev'.updates["startTime"] < 0))
       => \A i \in DOMAIN cues :
             \/ cues'[i] = cues[i]
             \/ (cues'[i].duration > 0 /\ cues'[i].startTime >= 0)
      ]_vars

\* ------------------------------------------------- C14
\* a payload that does not parse, is not tagged 'cue-from-library', or names
\* a kind outside the ten-variant enumeration
InvalidPayload(payload) ==
    IF payload.type # "cue-from-library" THEN TRUE
    ELSE payload.cueType \notin CueKinds

\* C14: a drop whose payload is invalid inserts no cue: the cue collection,
\* the primary and the selection set are exactly as before the drop.
C14_InvalidDropInsertsNothing ==
    [][(ev'.name = "drop" /\ InvalidPayload(ev'.payload)) =>
        /\ cues' = cues
        /\ selectedCue' = selectedCue
        /\ selectedCueIds' = selectedCueIds
      ]_vars

\* ------------------------------------------------- C19
CommonFields == {"id", "type", "startTime", "duration", "track"}

\* C19: in every reachable state every ramp_up / ramp_down cue carries
\* exactly the four ramp fields and no static field, and every cue of any
\* other kind carries exactly intensity and sharpness and no ramp field.
C19_ShapeFollowsKind ==
    \A i \in DOMAIN cues :
        DOMAIN cues[i] = CommonFields \cup
            (IF cues[i].type \in {"ramp_up", "ramp_down"}
             THEN {"intensity_start", "intensity_end",
                   "sharpness_start", "sharpness_end"}
             ELSE {"intensity", "sharpness"})

\* ------------------------------------------------- C20
\* C20: after any sequence of insertions no two cues in the collection have
\* the same id.
C20_IdsAreUnique ==
    \A i, j \in DOMAIN cues : i # j => cues[i].id # cues[j].id

\* ------------------------------------------------- C15
ZoomLevels == {1, 2, 4, 8, 16, 32, 64}     \* 0.25x .. 16x, in quarters

\* C15: zoomLevel is always one of 0.25, 0.5, 1, 2, 4, 8, 16; zoom-in
\* doubles it unless it is 16 (then it stays 16), zoom-out halves it unless
\* it is 0.25 (then it stays 0.25).
C15_ZoomLevels ==
    [][/\ zoomQ \in ZoomLevels
       /\ zoomQ' \in ZoomLevels
       /\ ev'.name = "zoomIn" =>
             zoomQ' = (IF zoomQ = 64 THEN 64 ELSE 2 * zoomQ)
       /\ ev'.name = "zoomOut" =>
             zoomQ' = (IF zoomQ = 1 THEN 1 ELSE zoomQ \div 2)
       /\ ev'.name \notin {"zoomIn", "zoomOut"} => zoomQ' = zoomQ
      ]_vars

\* a zoom-in at 16x left the level at 16x
C15_Witness ==
    ev.name = "zoomIn" /\ ev.from = 64 /\ zoomQ = 64

\* a zoom-out at 0.25x left the level at 0.25x
C15_WitnessFloor ==
    ev.name = "zoomOut" /\ ev.from = 1 /\ zoomQ = 1

\* ------------------------------------------------- C16
\* C16: 0 <= viewStartTime <= totalDuration - visibleDuration when
\* visibleDuration < totalDuration, and viewStartTime = 0 when
\* visibleDuration >= totalDuration.
C16_ViewStartInRange ==
    IF visibleDuration < duration
    THEN 0 <= viewStartTime /\ viewStartTime <= duration - visibleDuration
    ELSE viewStartTime = 0

\* a playback tick at the end of the video moved a zoomed-in view to its
\* last admissible position
C16_Witness ==
    /\ ev.name = "timeUpdate"
    /\ ev.view # viewStartTime
    /\ visibleDuration < duration
    /\ viewStartTime = duration - visibleDuration

\* ------------------------------------------------- C17
\* the view start the handler of the last event leaves, before the
\* playhead-follow effect runs (given the state before the event)
ViewBeforeCorrection(e, zq, vst, ct) ==
    IF e.name = "zoomIn" THEN ZoomInStart(zq, vst)
    ELSE IF e.name = "zoomOut" THEN ZoomOutStart(zq, ct)
    ELSE vst

\* C17: whenever, after a seek, a playback tick or a zoom change, the
\* playhead p (0 <= p <= totalDuration) is outside [viewStartTime,
\* viewStartTime + visibleDuration], the view is reset to clamp(0,
\* totalDuration - visibleDuration, p - visibleDuration / 2); afterwards the
\* playhead is inside the visible window and the correction has nothing
\* left to do.
C17_ViewFollowsPlayhead ==
    [][(0 <= currentTime' /\ currentTime' <= duration) =>
        LET p   == currentTime'
            vis == VisibleDurationAt(zoomQ')
            pre == ViewBeforeCorrection(ev', zoomQ, viewStartTime, currentTime)
            lo  == 0
            hi  == duration - vis
            x   == p - vis \div 2
        IN  /\ (p < pre \/ p > pre + vis) =>
                  viewStartTime' = (IF x < lo THEN lo ELSE IF hi < lo THEN lo
                                    ELSE IF x > hi THEN hi ELSE x)
            /\ ~(p < pre \/ p > pre + vis) => viewStartTime' = pre
            /\ viewStartTime' <= p
            /\ p <= viewStartTime' + vis
      ]_vars

\* a playback tick outside the window recentred the view on the playhead,
\* with neither clamp active
C17_Witness ==
    /\ ev.name = "timeUpdate"
    /\ ev.view # viewStartTime
    /\ viewStartTime = currentTime - visibleDuration \div 2
    /\ 0 < viewStartTime
    /\ viewStartTime < duration - visibleDuration

\* ------------------------------------------------- C18
\* instants of the visible window, in ticks
WindowTimes ==
    {viewStartTime + (k * visibleDuration) \div 8 : k \in 0..8}
    \cup {viewStartTime + k * Tenth : k \in 1..10}
    \cup {viewStartTime + k : k \in 1..(Tenth - 1)}

\* the numbers of the visible window
WindowNumbers ==
    {x \in {Seconds(t) : t \in WindowTimes} :
        /\ NumLeq(Seconds(viewStartTime), x)
        /\ NumLeq(x, NumAdd(Seconds(viewStartTime), visibleDurationF))}

\* |a - b| is at most k units in the last place of b
WithinUlps(a, b, k) ==
    \/ a = b
    \/ /\ a[1] # 0 /\ b[1] # 0
       /\ a[2] - b[2] \in {0 - 1, 0, 1}
       /\ LET lo == IF a[2] < b[2] THEN a[2] ELSE b[2]
              x  == a[1] * Pow2(a[2] - lo)
              y  == b[1] * Pow2(b[2] - lo)
          IN  (IF x > y THEN x - y ELSE y - x) <= k * Pow2(b[2] - lo)

\* C18 as stated: pixelToTime(timeToPixel(t)) = t for every t in the
\* visible window [viewStartTime, viewStartTime + visibleDuration].
C18_RoundTripExact ==
    \A t \in WindowNumbers : pixelToTimeF(timeToPixelF(t)) = t

\* C18, amended: pixelToTime(timeToPixel(t)) = t within floating-point
\* tolerance (at most 8 units in the last place of t) for every t in the
\* visible window.
C18_RoundTrip ==
    \A t \in WindowNumbers : WithinUlps(pixelToTimeF(timeToPixelF(t)), t, 8)

\* a zoomed view, after an event, in which some instant of the window does
\* not come back exactly
C18_Witness ==
    /\ ev.name # "init"
    /\ zoomQ # 4
    /\ \E t \in WindowNumbers : pixelToTimeF(timeToPixelF(t)) # t

\* ------------------------------------------------- C21
\* C21: export emits exactly one record per cue, in collection order, with
\* timestamp = startTime and duration and type copied; the record has the
\* four ramp fields (and neither intensity nor sharpness) iff the cue's kind
\* is ramp_up or ramp_down, and otherwise intensity and sharpness (and no
\* ramp field); track and id are never exported.
C21_ExportShape ==
    [][ev'.name = "export" =>
        /\ Len(ev'.cues) = Len(cues)
        /\ \A i \in DOMAIN cues :
              LET r == ev'.cues[i]
                  c == cues[i]
                  own == IF c.type \in {"ramp_up", "ramp_down"}
                         THEN {"intensity_start", "intensity_end",
                               "sharpness_start", "sharpness_end"}
                         ELSE {"intensity", "sharpness"}
              IN  /\ DOMAIN r = {"timestamp", "duration", "type"} \cup own
                  /\ r.timestamp = c.startTime
                  /\ r.duration = c.duration
                  /\ r.type = c.type
                  /\ \A f \in own : r[f] = c[f]
      ]_vars

\* an export of a collection holding a static cue followed by a ramp cue
C21_Witness ==
    /\ ev.name = "export"
    /\ Len(cues) = 2
    /\ Len(ev.cues) = 2
    /\ ~IsRampKind(cues[1].type)
    /\ IsRampKind(cues[2].type)

\* ------------------------------------------------- C22
\* C22: for every cue of every kind with duration > 0, every zoomLevel in
\* [0.25, 16] and every width >= 0, synthesize returns a point sequence
\* whose length is clamp(32, 512, floor(duration * 60 * sqrt(zoomLevel))),
\* hence in [32, 512], whose x values are non-decreasing from left to right,
\* with first x = 0 and last x = width.  (duration * 60 * sqrt(zoomLevel))^2
\* is 9 * t * t * zq / 256 for a duration of t ticks at zq quarters.
C22_SampleCountAndX ==
    (ev.name = "synthesized" /\ ev.cue.duration > 0) =>
        LET n      == Len(ev.points)
            square == 9 * ev.cue.duration * ev.cue.duration * ev.zoom
        IN  /\ 32 <= n /\ n <= 512
            /\ \/ n = 32 /\ square < (16 * 33) * (16 * 33)
               \/ n = 512 /\ square >= (16 * 512) * (16 * 512)
               \/ /\ (16 * n) * (16 * n) <= square
                  /\ square < (16 * (n + 1)) * (16 * (n + 1))
            /\ \A k \in 1..(n - 1) :
                  NumLeq(ev.points[k].x, ev.points[k + 1].x)
            /\ ev.points[1].x = <<0, 0>>
            /\ ev.points[n].x = Num(ev.width, 1)

\* a 2 s cue synthesized at 2x for a width of 100: 169 points, neither limit
\* active
C22_Witness ==
    /\ ev.name = "synthesized"
    /\ ev.cue.duration = RampDuration
    /\ ev.zoom = 8
    /\ ev.width = 100
    /\ Len(ev.points) = 169

\* ------------------------------------------------- C23
\* C23: synthesizing a cue whose kind is ramp_up or ramp_down but whose
\* payload lacks the ramp fields takes the fallback path: the result is a
\* flat curve (every point has the same y, a number) and no point has an
\* undefined or non-numeric y.
C23_MissingRampFieldsFallBack ==
    (/\ ev.name = "synthesized"
     /\ ev.cue.type \in {"ramp_up", "ramp_down"}
     /\ ~({"intensity_start", "intensity_end", "sharpness_start",
           "sharpness_end"} \subseteq DOMAIN ev.cue))
    => /\ \A k \in DOMAIN ev.points : ev.points[k].y.kind = "number"
       /\ \A k \in DOMAIN ev.points : ev.points[k].y = ev.points[1].y

\* ------------------------------------------------- C24
\* C24: in every state reachable through drop (at any pointer position and
\* zoom), library double-click at the playhead, move, resize-left,
\* resize-right, duration edits in the property panel and delete, every cue
\* has startTime >= 0 and duration > 0.
C24_CuesStayValid ==
    \A i \in DOMAIN cues : cues[i].startTime >= 0 /\ cues[i].duration > 0

\* a move gesture dragged to the left of where it began has left its cue at
\* startTime 0
C24_Witness ==
    /\ ev.name = "move"
    /\ DraggingCue
    /\ dragState.type = "move"
    /\ ev.x < dragState.startX
    /\ \E i \in DraggedIndexes(cues, dragState) : cues[i].startTime = 0

\* a drop into a zoomed and panned view has inserted a cue
C24_WitnessDrop ==
    /\ ev.name = "drop"
    /\ zoomQ # 4
    /\ viewStartTime > 0
    /\ cues # <<>>
    /\ cues[Len(cues)].startTime >= viewStartTime

\* ------------------------------------------------- C25
\* C25: every cue's track is an integer in [0, 8): a drop clamps
\* floor((y - 40) / 36) into 0..7, a library double-click uses track 0, and
\* no drag, resize or property edit changes a cue's track.
C25_TracksInRange ==
    [][/\ \A i \in DOMAIN cues' : cues'[i].track \in 0..7
       /\ (ev'.name = "drop" /\ Len(cues') = Len(cues) + 1) =>
             LET raw == (ev'.y - 40) \div 36
             IN  cues'[Len(cues')].track =
                    (IF raw < 0 THEN 0 ELSE IF raw > 7 THEN 7 ELSE raw)
       /\ ev'.name = "doubleClick" => cues'[Len(cues')].track = 0
       /\ ev'.name \in {"cueDown", "move", "up", "panelSlider", "panelReset",
                        "panelDuration"} =>
             /\ Len(cues') = Len(cues)
             /\ \A i \in DOMAIN cues : cues'[i].track = cues[i].track
      ]_vars

\* a drop below the last track has inserted a cue on track 7
C25_Witness ==
    /\ ev.name = "drop"
    /\ (ev.y - 40) \div 36 > 7
    /\ cues # <<>>
    /\ cues[Len(cues)].track = 7

\* ------------------------------------------------- C26
\* C26: on a 60 s timeline at zoom level 1 with the playhead at 10 s,
\* zooming in to level 2 yields visibleDuration = 30 s and a viewStartTime
\* within [0, 30 s] that keeps t = 10 s inside the visible window, namely
\* viewStartTime = 0 once the view has settled.
C26_ZoomScenario ==
    [][(/\ ev'.name = "zoomIn"
        /\ duration = 60 * 160
        /\ zoomQ = 4
        /\ currentTime = 10 * 160)
       => /\ zoomQ' = 8
          /\ VisibleDurationAt(zoomQ') = 30 * 160
          /\ 0 <= viewStartTime' /\ viewStartTime' <= 30 * 160
          /\ viewStartTime' <= 10 * 160
          /\ 10 * 160 <= viewStartTime' + VisibleDurationAt(zoomQ')
          /\ viewStartTime' = 0
      ]_vars

\* the scenario's zoom-in has been handled as the first event
C26_Witness ==
    /\ nEvents = 1
    /\ ev.name = "zoomIn" /\ ev.from = 4
    /\ duration = SixtySeconds
    /\ currentTime = TenSeconds
    /\ zoomQ = 8
    /\ viewStartTime = 0

\* ------------------------------------------------- C27
\* a pixel delta scaled by the current scale only
ScaleOnly(deltaX) == (deltaX * visibleDuration) \div TrackWidth
IdsAreUnique(cs) ==
    \A i, j \in DOMAIN cs : cs[i].id = cs[j].id => i = j

\* C27: while a cue is dragged (move, resize-left, resize-right) a move
\* event applies the time delta deltaX * visibleDuration / trackAreaWidth,
\* independent of viewStartTime; in particular a move event with zero
\* pointer delta leaves the cue's startTime and duration at their
\* gesture-start values for every pan position of the view.
C27_DeltaIsScaleOnly ==
    [][(/\ ev'.name = "move"
        /\ dragState # None
        /\ HasCue(cues, dragState.cueId)
        /\ IdsAreUnique(cues))
       => LET deltaX  == ev'.x - dragState.startX
              updates == DragUpdates(dragState, ScaleOnly(deltaX))
          IN  /\ cues' = IF DOMAIN updates # {}
                         THEN UpdateCues(cues, dragState.cueId, updates)
                         ELSE cues
              /\ deltaX = 0 =>
                    \A i \in DOMAIN cues' :
                        cues'[i].id = dragState.cueId =>
                            /\ cues'[i].startTime = dragState.startTime
                            /\ cues'[i].duration = dragState.startDuration
      ]_vars

\* ------------------------------------------------- C28
\* C28: a pointer-down in empty track space starts a marquee; without a
\* modifier key the selection set is emptied and the primary set to null at
\* that pointer-down, with a modifier key the selection set and the primary
\* are unchanged by it.
C28_TracksDownSelection ==
    [][ev'.name = "tracksDown"
       => /\ marqueeState' # None
          /\ marqueeState'.isActive
          /\ marqueeState'.currentX = marqueeState'.startX
          /\ marqueeState'.currentY = marqueeState'.startY
          /\ ~ev'.ctrlKey => selectedCueIds' = {} /\ selectedCue' = None
          /\ ev'.ctrlKey => UNCHANGED <<selectedCueIds, selectedCue>>
      ]_vars

\* a plain pointer-down in empty space has emptied a selection
C28_Witness ==
    /\ ev.name = "tracksDown" /\ ~ev.ctrlKey
    /\ selBefore # {}
    /\ selectedCueIds = {} /\ selectedCue = None
    /\ marqueeState # None

\* a modifier-held pointer-down in empty space has kept a selection
C28_WitnessModifier ==
    /\ ev.name = "tracksDown" /\ ev.ctrlKey
    /\ selBefore # {}
    /\ selectedCueIds = selBefore /\ selectedCue # None
    /\ marqueeState # None

\* ------------------------------------------------- C29
\* C29: on release of a marquee whose width <= 5 px or whose height <= 5 px
\* no selection is computed: the selection set, the primary and the cues are
\* what they were just before the release, and the marquee is cleared.
C29_SmallMarqueeIgnored ==
    [][(/\ ev'.name = "up"
        /\ marqueeState # None
        /\ \/ Abs(marqueeState.currentX - marqueeState.startX) <= 5
           \/ Abs(marqueeState.currentY - marqueeState.startY) <= 5)
       => /\ UNCHANGED <<selectedCueIds, selectedCue, cues>>
          /\ marqueeState' = None
      ]_vars

\* a marquee 0 px wide and more than 5 px high, lying over a cue, has been
\* released and has selected nothing
C29_Witness ==
    /\ ev.name = "up"
    /\ ev.marquee # None
    /\ MarqueeWidth(ev.marquee) <= 5
    /\ MarqueeHeight(ev.marquee) > 5
    /\ MarqueeIds(cues, MarqueeLeft(ev.marquee), MarqueeTop(ev.marquee),
                  MarqueeWidth(ev.marquee), MarqueeHeight(ev.marquee)) # {}
    /\ selectedCueIds = {} /\ selectedCue = None
    /\ marqueeState = None

\* ------------------------------------------------- C30
\* C30: after a modifier-held pointer-down on cue c, c's membership in the
\* selection set is flipped and all other memberships are unchanged; the
\* primary is then a cue whose id is in the resulting set, and it is null
\* exactly when the resulting set is empty (toggling c in makes c primary,
\* toggling c out makes some remaining member primary).
C30_ModifierToggle ==
    [][(ev'.name = "cueDown" /\ ev'.ctrlKey)
       => /\ (ev'.cue \in selectedCueIds') <=> (ev'.cue \notin selectedCueIds)
          /\ selectedCueIds' \ {ev'.cue} = selectedCueIds \ {ev'.cue}
          /\ selectedCue' # None =>
                /\ selectedCue'.id \in selectedCueIds'
                /\ \E i \in DOMAIN cues' : cues'[i] = selectedCue'
          /\ (selectedCue' = None) <=> (selectedCueIds' = {})
          /\ ev'.cue \in selectedCueIds' => selectedCue'.id = ev'.cue
      ]_vars

\* ------------------------------------------------- C31
\* clamp(lo, hi, x) as the source nests it: max(lo, min(hi, x))
ClampTo(lo, hi, x) == IF hi < x THEN (IF hi < lo THEN lo ELSE hi)
                      ELSE IF x < lo THEN lo ELSE x

\* C31 as stated: zoom-in sets viewStartTime to clamp(0, totalDuration -
\* newVisibleDuration, c - newVisibleDuration / 2), c being the centre of
\* the view before the zoom; so whenever the clamp is not active the centre
\* of the view is the same before and after zoom-in, and zoom-in at the 16x
\* cap leaves viewStartTime unchanged.
C31_ZoomInKeepsCentre ==
    [][ev'.name = "zoomIn" =>
        LET nv == (4 * duration) \div zoomQ'
            c  == viewStartTime + ((4 * duration) \div zoomQ) \div 2
            x  == c - nv \div 2
        IN  /\ viewStartTime' = ClampTo(0, duration - nv, x)
            /\ ClampTo(0, duration - nv, x) = x =>
                   viewStartTime' + nv \div 2 = c
            /\ zoomQ = 64 => viewStartTime' = viewStartTime
      ]_vars

\* C31, amended: zoom-in sets viewStartTime to that clamp, and when the
\* playhead p is outside the window so placed the playhead-follow
\* correction replaces it by clamp(0, totalDuration - newVisibleDuration,
\* p - newVisibleDuration / 2); so whenever the clamp is not active and the
\* playhead is inside the recentred window the centre of the view is the
\* same before and after zoom-in, and zoom-in at the 16x cap leaves
\* viewStartTime unchanged.
C31_ZoomInKeepsCentreOrFollows ==
    [][ev'.name = "zoomIn" =>
        LET nv   == (4 * duration) \div zoomQ'
            c    == viewStartTime + ((4 * duration) \div zoomQ) \div 2
            x    == c - nv \div 2
            pre  == ClampTo(0, duration - nv, x)
            p    == currentTime
            seen == pre <= p /\ p <= pre + nv
        IN  /\ seen => viewStartTime' = pre
            /\ ~seen => viewStartTime' =
                            ClampTo(0, duration - nv, p - nv \div 2)
            /\ (pre = x /\ seen) => viewStartTime' + nv \div 2 = c
            /\ zoomQ = 64 => viewStartTime' = viewStartTime
      ]_vars

\* a zoom-in below the cap, with the playhead at the centre of the view,
\* moved the view start and kept the centre
C31_Witness ==
    /\ ev.name = "zoomIn"
    /\ ev.from < 64
    /\ zoomQ = 2 * ev.from
    /\ viewStartTime # ev.view
    /\ 0 < viewStartTime /\ viewStartTime < duration - visibleDuration
    /\ viewStartTime <= currentTime
    /\ currentTime <= viewStartTime + visibleDuration
    /\ viewStartTime + visibleDuration \div 2
          = ev.view + VisibleDurationAt(ev.from) \div 2

\* a zoom-in whose recentred window lost the playhead was followed by the
\* correction: the centre of the view has moved
C31_WitnessFollows ==
    /\ ev.name = "zoomIn"
    /\ ev.from < 64
    /\ viewStartTime + visibleDuration \div 2
          # ev.view + VisibleDurationAt(ev.from) \div 2
    /\ 0 < viewStartTime /\ viewStartTime < duration - visibleDuration

\* a zoom-in at the 16x cap in a panned view
C31_WitnessCap ==
    /\ ev.name = "zoomIn" /\ ev.from = 64
    /\ ev.view > 0 /\ viewStartTime = ev.view

\* ------------------------------------------------- C32
\* C32: zoom-out sets viewStartTime to 0 when the new visibleDuration is
\* >= totalDuration (new zoomLevel <= 1), and otherwise to clamp(0,
\* totalDuration - newVisibleDuration, playhead - newVisibleDuration / 2),
\* so that the playhead lies inside the new visible window.
C32_ZoomOutShowsPlayhead ==
    [][ev'.name = "zoomOut" =>
        LET nv == (4 * duration) \div zoomQ'
            p  == currentTime
        IN  /\ (nv >= duration) <=> (zoomQ' <= 4)
            /\ viewStartTime' =
                  (IF nv >= duration THEN 0
                   ELSE ClampTo(0, duration - nv, p - nv \div 2))
            /\ viewStartTime' <= p
            /\ p <= viewStartTime' + nv
      ]_vars

\* ------------------------------------------------- C33
\* C33: while a library item is dragged over the tracks the hovered track
\* is clamp(0, 7, floor((y - 40) / 36)) for the pointer's vertical offset y,
\* and a valid drop at the same pointer position inserts the new cue on
\* exactly that hovered track.
C33_HoveredIsInsertionTrack ==
    [][/\ ev'.name = "dragOver" =>
             /\ isDragOver'
             /\ dragOverTrack' = ClampTo(0, 7, (ev'.y - 40) \div 36)
       /\ (/\ ev'.name = "drop"
           /\ ev.name = "dragOver" /\ ev.y = ev'.y
           /\ ev'.payload.type = "cue-from-library"
           /\ ev'.payload.cueType \in CueKinds)
          => /\ Len(cues') = Len(cues) + 1
             /\ cues'[Len(cues')].track = dragOverTrack
             /\ \A i \in DOMAIN cues : cues'[i] = cues[i]
      ]_vars

\* a library item hovered over track 1 has been dropped there
C33_Witness ==
    /\ ev.name = "drop"
    /\ ev.payload.type = "cue-from-library"
    /\ ev.payload.cueType \in CueKinds
    /\ ev.y = 76 /\ ev.over = 1
    /\ cues # <<>>
    /\ cues[Len(cues)].track = 1

\* a library item hovered below the last track has been dropped on track 7
C33_WitnessBelow ==
    /\ ev.name = "drop"
    /\ ev.payload.type = "cue-from-library"
    /\ ev.payload.cueType \in CueKinds
    /\ ev.y = 400 /\ ev.over = 7
    /\ cues # <<>>
    /\ cues[Len(cues)].track = 7

\* ------------------------------------------------- C34
\* C34: in every reachable state, if the primary (selectedCue) is not null
\* its id is a member of the selection set (selectedCueIds).
C34_PrimaryIsSelected ==
    selectedCue # None => selectedCue.id \in selectedCueIds

\* a modifier click took its cue out of the selection and made the
\* remaining member primary
C34_Witness ==
    /\ ev.name = "cueDown" /\ ev.ctrlKey
    /\ ev.cue \in selBefore
    /\ ev.cue \notin selectedCueIds
    /\ selectedCue # None
    /\ selectedCue.id # ev.cue
    /\ selectedCue.id \in selectedCueIds

\* a panel delete removed the primary and left a cue selected
C34_WitnessPanelDelete ==
    /\ ev.name = "panelDelete"
    /\ selectedCue = None
    /\ cues # <<>>
    /\ \E i \in DOMAIN cues : cues[i].id \in selectedCueIds

\* a marquee release selected both cues and made the first one primary
C34_WitnessMarquee ==
    /\ ev.name = "up" /\ ev.marquee # None
    /\ Cardinality(selectedCueIds) = 2
    /\ selectedCue # None /\ selectedCue = cues[1]

\* ------------------------------------------------- C35
\* C35: in every reachable state every id in the selection set is the id of
\* a cue of the collection; in particular no id of a removed cue remains
\* selected after a delete from the property panel or a video upload.
C35_SelectedIdsExist ==
    \A id \in selectedCueIds : \E i \in DOMAIN cues : cues[i].id = id

\* ------------------------------------------------- C36
\* C36: in every reachable state in which the primary is not null a cue
\* with the same id exists in the collection and all of its fields equal
\* those of the primary copy, also after each move or resize update of a
\* drag and after each property-panel edit.
C36_PrimaryCopyIsCurrent ==
    selectedCue # None =>
        \E i \in DOMAIN cues :
            /\ cues[i].id = selectedCue.id
            /\ DOMAIN cues[i] = DOMAIN selectedCue
            /\ \A f \in DOMAIN selectedCue : cues[i][f] = selectedCue[f]

\* a move update of a drag changed the primary cue and its copy alike
C36_Witness ==
    /\ ev.name = "move"
    /\ dragState # None
    /\ selectedCue # None
    /\ selectedCue.id = dragState.cueId
    /\ \/ selectedCue.startTime # dragState.startTime
       \/ selectedCue.duration # dragState.startDuration
    /\ \E i \in DOMAIN cues : cues[i] = selectedCue

\* a slider of the property panel changed the primary cue and its copy
C36_WitnessPanel ==
    /\ ev.name = "panelSlider"
    /\ selectedCue # None
    /\ ev.field \in DOMAIN selectedCue
    /\ selectedCue[ev.field] \in SliderValues
    /\ \E i \in DOMAIN cues : cues[i] = selectedCue

\* ------------------------------------------------- C37
\* the fields a drag of the given mode may write
DragFields(type) ==
    IF type = "move" THEN {"startTime"}
    ELSE IF type = "resize-left" THEN {"startTime", "duration"}
    ELSE {"duration"}

\* C37: a DraggingCue gesture changes only the cue whose id it captured at
\* pointer-down, and only that cue's startTime (move), startTime and
\* duration (resize-left) or duration (resize-right): every other cue, and
\* the dragged cue's id, kind, track and parameters, are unchanged by every
\* move event and by the pointer-up.
C37_DragChangesOneCue ==
    [][(ev'.name \in {"move", "up"} /\ dragState # None) =>
        /\ DOMAIN cues' = DOMAIN cues
        /\ \A i \in DOMAIN cues :
              cues'[i] # cues[i] =>
                 /\ cues[i].id = dragState.cueId
                 /\ DOMAIN cues'[i] = DOMAIN cues[i]
                 /\ \A f \in DOMAIN cues[i] \ DragFields(dragState.type) :
                        cues'[i][f] = cues[i][f]
        /\ \A i, j \in DOMAIN cues :
              (cues'[i] # cues[i] /\ cues'[j] # cues[j]) => i = j
        /\ ev'.name = "up" => cues' = cues
      ]_vars

\* ------------------------------------------------- C38
\* the resize-left update of the move event being handled, in numbers
ResizeLeftNow == resizeLeftF(dragState, deltaTimeF(ev'.x - dragState.startX))
RightEdgeAtStart ==
    NumAdd(Seconds(dragState.startTime), Seconds(dragState.startDuration))

\* C38 as stated: every applied resize-left update preserves the cue's
\* right edge: startTime' + duration' equals the gesture-start startTime +
\* startDuration, for every pointer delta, also when startTime' is clamped
\* to 0.
C38_RightEdgeExact ==
    [][(/\ ev'.name = "move"
        /\ dragState # None
        /\ dragState.type = "resize-left"
        /\ ResizeLeftNow.applied)
       => NumAdd(ResizeLeftNow.startTime, ResizeLeftNow.duration)
             = RightEdgeAtStart
      ]_vars

\* C38, amended: every applied resize-left update preserves the cue's right
\* edge within floating-point tolerance (at most 4 units in the last place
\* of the gesture-start startTime + startDuration), and exactly when
\* startTime' is clamped to 0.
C38_RightEdgeKept ==
    [][(/\ ev'.name = "move"
        /\ dragState # None
        /\ dragState.type = "resize-left"
        /\ ResizeLeftNow.applied)
       => /\ WithinUlps(NumAdd(ResizeLeftNow.startTime,
                               ResizeLeftNow.duration),
                        RightEdgeAtStart, 4)
          /\ ResizeLeftNow.startTime[1] = 0 =>
                ResizeLeftNow.duration = RightEdgeAtStart
          /\ \A i \in DOMAIN cues :
                cues'[i] # cues[i] =>
                   cues'[i].startTime + cues'[i].duration
                      = dragState.startTime + dragState.startDuration
      ]_vars

\* a resize-left update whose start was clamped to 0 has been applied
C38_Witness ==
    /\ ev.name = "move"
    /\ dragState # None
    /\ dragState.type = "resize-left"
    /\ dragState.startTime > 0
    /\ \E i \in DOMAIN cues :
          /\ cues[i].id = dragState.cueId
          /\ cues[i].startTime = 0
          /\ cues[i].duration = dragState.startTime + dragState.startDuration

\* a resize-left update that moved the start to the right has been applied
C38_WitnessShrink ==
    /\ ev.name = "move"
    /\ dragState # None
    /\ dragState.type = "resize-left"
    /\ \E i \in DOMAIN cues :
          /\ cues[i].id = dragState.cueId
          /\ cues[i].startTime > dragState.startTime
          /\ cues[i].duration < dragState.startDuration

\* ------------------------------------------------- C39
\* the cue of the drag in progress is no longer in the collection
DraggedCueIsGone == dragState # None /\ ~HasCue(cues, dragState.cueId)

\* C39: once the cue being dragged has been deleted (Delete key or panel
\* delete) while the gesture is active, every later pointer-move leaves the
\* cue collection unchanged, and the following pointer-up returns to Idle.
C39_DeletedCueStaysDeleted ==
    [][DraggedCueIsGone =>
         /\ ev'.name = "move" => cues' = cues
         /\ ev'.name = "up" => /\ cues' = cues
                               /\ dragState' = None
                               /\ ActiveGestures' = 0
      ]_vars

\* ------------------------------------------------- C40
\* the box handleMarqueeSelection computes for a cue meets the rectangle of
\* marquee m (left edges compared after multiplying through by duration)
MeetsComputedBox(cue, m) ==
    LET left   == MarqueeLeft(m)
        right  == MarqueeLeft(m) + MarqueeWidth(m)
        top    == MarqueeTop(m)
        bottom == MarqueeTop(m) + MarqueeHeight(m)
    IN  /\ cue.startTime * 800 <= right * duration
        /\ left * duration <= (cue.startTime + cue.duration) * 800
        /\ cue.track * 36 + 40 <= bottom
        /\ top <= cue.track * 36 + 40 + 32

\* C40: on release of a marquee above the 5 px threshold the selection set
\* becomes exactly the set of ids of the cues whose computed box meets the
\* rectangle, replacing whatever was selected, also when the gesture began
\* with a modifier held, and the primary becomes the first such cue in
\* collection order, or null when there is none.
C40_MarqueeReplacesSelection ==
    [][(/\ ev'.name = "up"
        /\ marqueeState # None
        /\ MarqueeWidth(marqueeState) > 5
        /\ MarqueeHeight(marqueeState) > 5)
       => LET hit == {i \in DOMAIN cues :
                        MeetsComputedBox(cues[i], marqueeState)}
          IN  /\ selectedCueIds' = {cues[i].id : i \in hit}
              /\ hit = {} => selectedCue' = None
              /\ hit # {} =>
                    \E i \in hit : /\ \A j \in hit : i <= j
                                   /\ selectedCue' = cues[i]
      ]_vars

====
